---------------------------- MODULE Spec2Model ----------------------------
(***************************************************************************)
(* Model of the PDF manual RAG pipeline of NB3025/demo-car-agent:          *)
(*   document_processor.py  (chunking, section typing)                     *)
(*   embedding_service.py   (batch embedding with zero-vector fallback)    *)
(*   vector_store.py        (index lifecycle, bulk indexing)               *)
(*   rag_system.py          (query orchestration)                          *)
(*                                                                         *)
(* Text is abstracted to what the code looks at.  A page is a string or a  *)
(* dict that holds its text; a text is a sequence of                       *)
(* lines; of a line the model keeps whether it matches the heading         *)
(* pattern, how many tokens the tokenizer counts for its words, and        *)
(* whether it ends with a sentence terminator ([.!?]) so that the newline  *)
(* after it is a sentence boundary for re.split(r'[.!?]\s+').  Token       *)
(* counts are additive: a terminator character costs DotTokens tokens and  *)
(* whitespace costs none.                                                  *)
(***************************************************************************)
EXTENDS Integers, Sequences, FiniteSets, TLC

---------------------------------------------------------------------------
(* Program constants                                                       *)

MAX_TOKENS_PER_CHUNK == 512

\* tokens the tokenizer counts for one terminator character such as "."
DotTokens == 1

---------------------------------------------------------------------------
(* Bounds of the model                                                     *)

\* lines of one document (over all its pages) given to create_chunks
MaxLines == 3

\* words of a text given to identify_section_type
MaxWords == 2

\* texts given to one create_embeddings_batch call
MaxTexts == 3

\* largest batch_size given to create_embeddings_batch (at least 1)
MaxBatchSize == 3

---------------------------------------------------------------------------
(* Generic helpers                                                         *)

RECURSIVE SumSeq(_)
SumSeq(s) == IF s = <<>> THEN 0 ELSE Head(s) + SumSeq(Tail(s))

RECURSIVE FlattenSeq(_)
FlattenSeq(ss) == IF ss = <<>> THEN <<>> ELSE Head(ss) \o FlattenSeq(Tail(ss))

Range(s) == { s[i] : i \in DOMAIN s }

SeqsUpTo(S, n) == UNION { [1..k -> S] : k \in 0..n }

---------------------------------------------------------------------------
(* Documents: the input of DocumentProcessor.create_chunks                 *)

\* token counts of a line's words: a line such that two of them with
\* their terminators fill a chunk exactly, and a line that fills a chunk
\* alone (longer sentences arise from unterminated lines running on)
LineTokens == { MAX_TOKENS_PER_CHUNK \div 2 - DotTokens, MAX_TOKENS_PER_CHUNK }

BlankLine == [head |-> FALSE, tok |-> 0, stop |-> FALSE]

\* a line is blank (empty or whitespace only), a heading or body text
Lines == { BlankLine } \cup [head : BOOLEAN, tok : LineTokens, stop : BOOLEAN]

\* a document written flat: each line says whether it opens a new page
FlatDocs == SeqsUpTo([line : Lines, newpage : BOOLEAN], MaxLines)

\* the pages of a flat document (the first line always opens page 1)
RECURSIVE PagesOf(_)
PagesOf(flat) ==
    IF flat = <<>> THEN <<>>
    ELSE LET rest == PagesOf(Tail(flat))
             l == Head(flat).line
         IN IF rest = <<>> \/ (Len(flat) > 1 /\ flat[2].newpage)
            THEN <<(<<l>>)>> \o rest
            ELSE <<(<<l>> \o Head(rest))>> \o Tail(rest)

\* a field of a structured page: absent (missing, None or the empty string,
\* all of them false for "or"), or a string that is not empty
Absent == [present |-> FALSE, lines |-> <<>>]

Str(lines) == [present |-> TRUE, lines |-> lines]

\* str(page_content) of a structured page: the dict's repr, one line of
\* text that is no heading
ReprLine == [head |-> FALSE, tok |-> MAX_TOKENS_PER_CHUNK \div 2 - DotTokens,
             stop |-> FALSE]

\* a page that is no dict, given by its string form str(page_content)
StrPage(lines) ==
    [dict |-> FALSE, str |-> lines, text |-> Absent, content |-> Absent]

\* a page that is a dict, given by its fields 'text' and 'content'
DictPage(text_, content_) ==
    [dict |-> TRUE, str |-> << ReprLine >>, text |-> text_, content |-> content_]

\* markdown_content as a list of pages that are strings
Documents ==
    { [p \in DOMAIN PagesOf(f) |-> StrPage(PagesOf(f)[p])] : f \in FlatDocs }

\* the content dict given to create_chunks: the pages and, when
\* process_document built it, the path of the source file
Content(pages, source_file) ==
    [markdown_content |-> pages, source_file |-> source_file]


---------------------------------------------------------------------------
(* document_processor.py: DocumentProcessor                                *)

\* "not text.strip()": every line of the text is empty or whitespace
IsBlankText(lines) == \A i \in DOMAIN lines : lines[i] = BlankLine

\* len(self.tokenizer.encode(text)) of a text given by its lines
TokenCount(lines) ==
    SumSeq([i \in DOMAIN lines |->
                lines[i].tok + (IF lines[i].stop THEN DotTokens ELSE 0)])

\* a loop in which a heading that follows a heading joins its section
RECURSIVE SplitLinesMerging(_, _, _)
SplitLinesMerging(lines, sections, current_section) ==
    IF lines = <<>>
    THEN IF current_section # <<>> THEN Append(sections, current_section)
                                   ELSE sections
    ELSE LET line == Head(lines)
         IN IF line.head /\ current_section # <<>>
                         /\ ~current_section[Len(current_section)].head
            THEN SplitLinesMerging(Tail(lines), Append(sections, current_section),
                                   <<line>>)
            ELSE SplitLinesMerging(Tail(lines), sections,
                                   Append(current_section, line))

\* a coercion that reads the 'text' field only
text_content_text_only(page_content) ==
    IF page_content.dict
    THEN IF page_content.text.present THEN page_content.text.lines
         ELSE << BlankLine >>
    ELSE page_content.str

\* text_content of create_chunks (lines 146-151): of a dict its 'text', or
\* else its 'content', or else str(page_content); of any other page
\* str(page_content)
text_content(page_content) ==
    IF page_content.dict
    THEN IF page_content.text.present THEN page_content.text.lines
         ELSE IF page_content.content.present THEN page_content.content.lines
         ELSE page_content.str
    ELSE page_content.str

\* the loop of _split_by_sections over the lines still to read
RECURSIVE SplitLines(_, _, _)
SplitLines(lines, sections, current_section) ==
    IF lines = <<>>
    THEN IF current_section # <<>> THEN Append(sections, current_section)
                                   ELSE sections
    ELSE LET line == Head(lines)
         IN IF line.head
            THEN IF current_section # <<>>
                 THEN SplitLines(Tail(lines), Append(sections, current_section), <<line>>)
                 ELSE SplitLines(Tail(lines), sections, <<line>>)
            ELSE SplitLines(Tail(lines), sections, Append(current_section, line))

\* _split_by_sections: heading-delimited sections, blank ones dropped
split_by_sections(content) ==
    SelectSeq(SplitLines(content, <<>>, <<>>), LAMBDA section : ~IsBlankText(section))

\* re.split(r'[.!?]\s+', section).  A terminator followed by the newline
\* that joins two lines is a boundary and is cut out of the piece before
\* it (cut = TRUE); the last line's terminator has no whitespace after it
\* and stays in the last piece.  acc: tokens of the piece being read.
RECURSIVE SplitSentences(_, _)
SplitSentences(lines, acc) ==
    LET l == Head(lines)
    IN IF Len(lines) = 1
       THEN << [tok |-> acc + l.tok + (IF l.stop THEN DotTokens ELSE 0), cut |-> FALSE] >>
       ELSE IF l.stop
            THEN << [tok |-> acc + l.tok, cut |-> TRUE] >> \o SplitSentences(Tail(lines), 0)
            ELSE SplitSentences(Tail(lines), acc + l.tok)

\* tokens of a buffer built as sentence + ". " + sentence + ". " + ...
\* (the same count after .strip(): whitespace costs no token)
BufferTokens(sentences) ==
    SumSeq([i \in DOMAIN sentences |-> sentences[i].tok + DotTokens])

\* DocumentChunk built by _split_long_section from the buffer current_chunk
SubChunk(current_chunk, page_number) ==
    [content     |-> [whole |-> FALSE, sentences |-> current_chunk],
     metadata    |-> <<>>,
     page_number |-> page_number,
     chunk_id    |-> ""]

\* a loop that starts a new buffer without emitting the full one
RECURSIVE SplitLoopDropping(_, _, _, _)
SplitLoopDropping(sentences, chunks, current_chunk, page_number) ==
    IF sentences = <<>>
    THEN IF current_chunk # <<>>
         THEN Append(chunks, SubChunk(current_chunk, page_number))
         ELSE chunks
    ELSE LET sentence   == Head(sentences)
             test_chunk == Append(current_chunk, sentence)
         IN IF BufferTokens(test_chunk) <= MAX_TOKENS_PER_CHUNK
            THEN SplitLoopDropping(Tail(sentences), chunks, test_chunk, page_number)
            ELSE SplitLoopDropping(Tail(sentences), chunks, <<sentence>>,
                                   page_number)

\* the loop of _split_long_section over the sentences still to read
RECURSIVE SplitLoop(_, _, _, _)
SplitLoop(sentences, chunks, current_chunk, page_number) ==
    IF sentences = <<>>
    THEN IF current_chunk # <<>>
         THEN Append(chunks, SubChunk(current_chunk, page_number))
         ELSE chunks
    ELSE LET sentence   == Head(sentences)
             test_chunk == Append(current_chunk, sentence)
         IN IF BufferTokens(test_chunk) <= MAX_TOKENS_PER_CHUNK
            THEN SplitLoop(Tail(sentences), chunks, test_chunk, page_number)
            ELSE SplitLoop(Tail(sentences),
                           IF current_chunk # <<>>
                           THEN Append(chunks, SubChunk(current_chunk, page_number))
                           ELSE chunks,
                           <<sentence>>, page_number)

\* _split_long_section
split_long_section(section, page_number) ==
    SplitLoop(SplitSentences(section, 0), <<>>, <<>>, page_number)

\* f"chunk_{chunk_id}"
ChunkIdStr(chunk_id) == "chunk_" \o ToString(chunk_id)

\* a sub-chunk loop that moves the counter once per section instead of once
\* per sub-chunk
NumberSubChunksOncePerSection(sub_chunks, chunks, chunk_id, metadata) ==
    [chunks   |-> chunks \o [i \in DOMAIN sub_chunks |->
                                [sub_chunks[i] EXCEPT !.chunk_id = ChunkIdStr(chunk_id),
                                                      !.metadata = metadata]],
     chunk_id |-> chunk_id + 1]

\* the sub-chunk loop of create_chunks (lines 185-193): each sub-chunk takes
\* the counter's value as its id and the counter moves on by one
RECURSIVE NumberSubChunks(_, _, _, _)
NumberSubChunks(sub_chunks, chunks, chunk_id, metadata) ==
    IF sub_chunks = <<>> THEN [chunks |-> chunks, chunk_id |-> chunk_id]
    ELSE NumberSubChunks(Tail(sub_chunks),
                         Append(chunks, [Head(sub_chunks) EXCEPT
                                            !.chunk_id = ChunkIdStr(chunk_id),
                                            !.metadata = metadata]),
                         chunk_id + 1, metadata)

\* the body of create_chunks' loop over sections, for one section: the
\* chunk list and the counter after it
SectionStep(section, page_number, chunks, chunk_id, metadata) ==
    IF TokenCount(section) <= MAX_TOKENS_PER_CHUNK
    THEN [chunks   |-> Append(chunks,
                              [content     |-> [whole |-> TRUE,
                                                sentences |-> SplitSentences(section, 0)],
                               metadata    |-> metadata,
                               page_number |-> page_number,
                               chunk_id    |-> ChunkIdStr(chunk_id)]),
          chunk_id |-> chunk_id + 1]
    ELSE NumberSubChunks(split_long_section(section, page_number), chunks, chunk_id,
                         metadata)

\* the loop of create_chunks over the sections of one page
RECURSIVE SectionLoop(_, _, _, _, _)
SectionLoop(sections, page_number, chunks, chunk_id, metadata) ==
    IF sections = <<>> THEN [chunks |-> chunks, chunk_id |-> chunk_id]
    ELSE LET after == SectionStep(Head(sections), page_number, chunks, chunk_id, metadata)
         IN SectionLoop(Tail(sections), page_number, after.chunks, after.chunk_id,
                        metadata)

\* a page loop that numbers the pages that were not skipped
RECURSIVE PageLoopCountingKept(_, _, _, _, _)
PageLoopCountingKept(page_contents, page_num, chunks, chunk_id, metadata) ==
    IF page_contents = <<>> THEN chunks
    ELSE LET coerced == text_content(Head(page_contents))
         IN IF IsBlankText(coerced)
            THEN PageLoopCountingKept(Tail(page_contents), page_num, chunks,
                                      chunk_id, metadata)
            ELSE LET after == SectionLoop(split_by_sections(coerced),
                                          page_num + 1, chunks, chunk_id, metadata)
                 IN PageLoopCountingKept(Tail(page_contents), page_num + 1,
                                         after.chunks, after.chunk_id, metadata)

\* the loop of create_chunks over the pages; page_num counts from 0
RECURSIVE PageLoop(_, _, _, _, _)
PageLoop(page_contents, page_num, chunks, chunk_id, metadata) ==
    IF page_num >= Len(page_contents) THEN chunks
    ELSE LET coerced == text_content(page_contents[page_num + 1])
         IN IF IsBlankText(coerced)
            THEN PageLoop(page_contents, page_num + 1, chunks, chunk_id, metadata)
            ELSE LET after == SectionLoop(split_by_sections(coerced),
                                          page_num + 1, chunks, chunk_id, metadata)
                 IN PageLoop(page_contents, page_num + 1, after.chunks, after.chunk_id,
                             metadata)

\* DocumentProcessor.create_chunks
create_chunks(content_) ==
    PageLoop(content_.markdown_content, 0, <<>>, 0,
             [source_file |-> content_.source_file])

\* the files process_document is given: a manual whose first page holds
\* whitespace only and whose second page holds an oversized section, a
\* manual of one short page, a file whose only page holds whitespace only,
\* and a file the extraction cannot read; the extraction gives each page
\* as a dict with its markdown under 'text'
PdfFiles == { "a.pdf", "b.pdf", "blank.pdf", "corrupt.pdf" }

HalfLine == MAX_TOKENS_PER_CHUNK \div 2 - DotTokens

PdfPages(pdf_path) ==
    CASE pdf_path = "a.pdf" ->
            << DictPage(Str(<< BlankLine >>), Absent),
               DictPage(Str(<< [head |-> TRUE,  tok |-> HalfLine, stop |-> TRUE],
                               [head |-> FALSE, tok |-> MAX_TOKENS_PER_CHUNK,
                                stop |-> TRUE] >>), Absent) >>
      [] pdf_path = "b.pdf" ->
            << DictPage(Str(<< [head |-> FALSE, tok |-> HalfLine, stop |-> TRUE] >>),
                        Absent) >>
      [] pdf_path = "blank.pdf" -> << DictPage(Str(<< BlankLine >>), Absent) >>

\* DocumentProcessor.extract_pdf_content: the pages, or the exception it
\* re-raises
extract_pdf_content(pdf_path) ==
    IF pdf_path = "corrupt.pdf" THEN [raised |-> TRUE, value |-> "Exception"]
    ELSE [raised |-> FALSE, value |-> PdfPages(pdf_path)]

\* DocumentProcessor.process_document
process_document(pdf_path) ==
    LET extracted == extract_pdf_content(pdf_path)
    IN IF extracted.raised THEN extracted
       ELSE [raised |-> FALSE,
             value  |-> create_chunks(Content(extracted.value, pdf_path))]

\* what process_document returns or raises for each of the files
ProcessedDocuments == [pdf_path \in PdfFiles |-> process_document(pdf_path)]

\* len(self.tokenizer.encode(chunk.content))
ChunkTokens(chunk) ==
    IF chunk.content.whole
    THEN SumSeq([i \in DOMAIN chunk.content.sentences |->
                    chunk.content.sentences[i].tok
                    + (IF chunk.content.sentences[i].cut THEN DotTokens ELSE 0)])
    ELSE BufferTokens(chunk.content.sentences)

---------------------------------------------------------------------------
(* identify_section_type.  A text is a sequence of words; the keywords are *)
(* the Korean keywords of lines 114-120, written in Latin letters.         *)

WarningKeywords         == <<"juui", "gyeonggo", "wiheom", "josim">>
InstructionKeywords     == <<"sayongbeop", "jojak", "jakdong", "bangbeop">>
SpecificationKeywords   == <<"sayang", "gyugyeok", "jewon">>
TroubleshootingKeywords == <<"munjehaegyeol", "gojang", "jeomgeom", "jindan">>

\* words that are no keyword, one of them in upper case
OtherWords == { "santafe", "SANTAFE" }

Vocabulary ==
    Range(WarningKeywords) \cup Range(InstructionKeywords)
    \cup Range(SpecificationKeywords) \cup Range(TroubleshootingKeywords)
    \cup OtherWords

Texts == SeqsUpTo(Vocabulary, MaxWords)

\* str.lower() of one word: Hangul has no case
LowerWord(w) == IF w = "SANTAFE" THEN "santafe" ELSE w

\* text.lower()
Lower(txt) == [i \in DOMAIN txt |-> LowerWord(txt[i])]

\* keyword in text
Contains(txt, keyword) == \E i \in DOMAIN txt : txt[i] = keyword

\* any(keyword in text_lower for keyword in keywords)
AnyKeyword(text_lower, keywords) ==
    \E k \in DOMAIN keywords : Contains(text_lower, keywords[k])

\* a classifier that tests the instruction keywords before the warning ones
identify_section_type_instruction_first(txt) ==
    LET text_lower == Lower(txt)
    IN IF AnyKeyword(text_lower, InstructionKeywords) THEN "instruction"
       ELSE IF AnyKeyword(text_lower, WarningKeywords) THEN "warning"
       ELSE IF AnyKeyword(text_lower, SpecificationKeywords) THEN "specification"
       ELSE IF AnyKeyword(text_lower, TroubleshootingKeywords) THEN "troubleshooting"
       ELSE "general"

\* DocumentProcessor.identify_section_type
identify_section_type(txt) ==
    LET text_lower == Lower(txt)
    IN IF AnyKeyword(text_lower, WarningKeywords) THEN "warning"
       ELSE IF AnyKeyword(text_lower, InstructionKeywords) THEN "instruction"
       ELSE IF AnyKeyword(text_lower, SpecificationKeywords) THEN "specification"
       ELSE IF AnyKeyword(text_lower, TroubleshootingKeywords) THEN "troubleshooting"
       ELSE "general"

---------------------------------------------------------------------------
(* embedding_service.py: BedrockEmbeddingService                           *)

\* "dimensions": 1024 of the request, and the length of the fallback vector
EMBEDDING_DIMENSION == 1024

\* the texts to embed
EmbedTexts == { "text_a", "text_b" }

\* what one invoke_model call of create_embedding does: it answers with
\* an embedding, raises (ClientError or another error), or answers with an
\* empty embedding
CallOutcomes == { "ok", "raises", "empty" }

\* [0.0] * 1024
ZeroVector == [dim |-> EMBEDDING_DIMENSION, zero |-> TRUE, of |-> <<>>]

\* the vector the model returns for a text
ModelVector(t) == [dim |-> EMBEDDING_DIMENSION, zero |-> FALSE, of |-> <<t>>]

\* create_embedding: the embedding, or the exception it re-raises; an
\* empty embedding in the answer is raised as a ValueError
create_embedding(t, outcome) ==
    CASE outcome = "ok"     -> [raised |-> FALSE, value |-> ModelVector(t)]
      [] outcome = "raises" -> [raised |-> TRUE,  value |-> "ClientError"]
      [] outcome = "empty"  -> [raised |-> TRUE,  value |-> "ValueError"]

\* a loop body that skips the text whose embedding failed
EmbedOneSkipFailed(batch_embeddings, t, outcome) ==
    LET embedding == create_embedding(t, outcome)
    IN IF embedding.raised THEN [raised |-> FALSE, value |-> batch_embeddings]
       ELSE [raised |-> FALSE, value |-> Append(batch_embeddings, embedding.value)]

\* the body of the loop over one batch (lines 100-107): try create_embedding,
\* except Exception: append the zero vector.  Nothing leaves the handler.
EmbedOne(batch_embeddings, t, outcome) ==
    LET embedding == create_embedding(t, outcome)
    IN IF embedding.raised
       THEN [raised |-> FALSE, value |-> Append(batch_embeddings, ZeroVector)]
       ELSE [raised |-> FALSE, value |-> Append(batch_embeddings, embedding.value)]

\* the loop over the texts of one batch; an exception leaving the body
\* ends the loop
RECURSIVE EmbedBatch(_, _, _)
EmbedBatch(batch, outcomes, batch_embeddings) ==
    IF batch = <<>> THEN [raised |-> FALSE, value |-> batch_embeddings]
    ELSE LET one == EmbedOne(batch_embeddings, Head(batch), Head(outcomes))
         IN IF one.raised THEN one
            ELSE EmbedBatch(Tail(batch), Tail(outcomes), one.value)

\* s[i:i + n] of Python, i counted from 0
Slice(s, i, n) ==
    SubSeq(s, i + 1, IF i + n < Len(s) THEN i + n ELSE Len(s))

\* a loop that puts the embeddings of each batch in front of those of the
\* batches before it
RECURSIVE BatchLoopPrepending(_, _, _, _, _)
BatchLoopPrepending(texts_, outcomes, batch_size_, i, embeddings_) ==
    IF i >= Len(texts_) THEN [raised |-> FALSE, value |-> embeddings_]
    ELSE LET batch_embeddings == EmbedBatch(Slice(texts_, i, batch_size_),
                                            Slice(outcomes, i, batch_size_), <<>>)
         IN IF batch_embeddings.raised THEN batch_embeddings
            ELSE BatchLoopPrepending(texts_, outcomes, batch_size_, i + batch_size_,
                                     batch_embeddings.value \o embeddings_)

\* for i in range(0, len(texts), batch_size), from i on
RECURSIVE BatchLoop(_, _, _, _, _)
BatchLoop(texts_, outcomes, batch_size_, i, embeddings_) ==
    IF i >= Len(texts_) THEN [raised |-> FALSE, value |-> embeddings_]
    ELSE LET batch_embeddings == EmbedBatch(Slice(texts_, i, batch_size_),
                                            Slice(outcomes, i, batch_size_), <<>>)
         IN IF batch_embeddings.raised THEN batch_embeddings
            ELSE BatchLoop(texts_, outcomes, batch_size_, i + batch_size_,
                           embeddings_ \o batch_embeddings.value)

\* BedrockEmbeddingService.create_embeddings_batch; outcomes[i] is what the
\* i-th create_embedding call does
create_embeddings_batch(texts_, outcomes, batch_size_) ==
    BatchLoop(texts_, outcomes, batch_size_, 0, <<>>)

---------------------------------------------------------------------------
(* vector_store.py: OpenSearchVectorStore, and the search engine it calls. *)
(* The engine's index is [exists, mapping, docs, refreshed]: docs maps a   *)
(* document key (_id) to the stored document, refreshed says whether every *)
(* stored document is visible to searches.  An operation of the store is   *)
(* a function of the index and of what the engine does with each request   *)
(* (env); it yields the index afterwards, the requests it sent and what it *)
(* returned or raised.                                                     *)

\* batch_size of add_documents
BULK_BATCH_SIZE == 100

NoDocs == [k \in {} |-> {}]

NoIndex == [exists |-> FALSE, mapping |-> [kind |-> "none"], docs |-> NoDocs,
            refreshed |-> TRUE]

Keys(index) == DOMAIN index.docs

Returned(v) == [raised |-> FALSE, value |-> v]
Raised(e)   == [raised |-> TRUE,  value |-> e]

\* engine: indices.create on a missing index
EngineCreate(index, dimension) ==
    [exists |-> TRUE, mapping |-> [knn_dimension |-> dimension],
     docs |-> NoDocs, refreshed |-> TRUE]

\* engine: indices.delete
EngineDelete(index) == NoIndex

\* engine: bulk of "index" actions; items[i] = [id, doc], the items at the
\* positions in failed are rejected, the others are stored under their id,
\* a later item replacing an earlier one with the same id.  A missing index
\* is created on the first write with a dynamic mapping.
EngineBulk(index, items, failed) ==
    LET accepted == { i \in DOMAIN items : i \notin failed }
        ids      == { items[i].id : i \in accepted }
        lastOf(k) == CHOOSE i \in accepted :
                        /\ items[i].id = k
                        /\ \A j \in accepted : items[j].id = k => j <= i
    IN IF accepted = {} THEN index
       ELSE [exists    |-> TRUE,
             mapping   |-> IF index.exists THEN index.mapping
                           ELSE [kind |-> "dynamic"],
             docs      |-> [k \in Keys(index) \cup ids |->
                               IF k \in ids THEN items[lastOf(k)].doc
                               ELSE index.docs[k]],
             refreshed |-> FALSE]

\* engine: indices.refresh
EngineRefresh(index) == [index EXCEPT !.refreshed = TRUE]

\* what the engine does with the requests of one create_index call: the
\* existence check answers or raises; the create request succeeds, is
\* refused because another client created the index after the check
\* ("already_exists"), is refused for another reason, or fails in transport
CreateEnvs ==
    [exists : {"answers", "raises"},
     create : {"ok", "already_exists", "request_error", "raises"}]

\* the try block of create_index (lines 55-116)
create_index_try(index, dimension, env) ==
    IF env.exists = "raises"
    THEN [index |-> index, requests |-> <<"exists">>, out |-> Raised("Exception")]
    ELSE IF index.exists
    THEN [index |-> index, requests |-> <<"exists">>, out |-> Returned(TRUE)]
    ELSE CASE env.create = "ok" ->
                [index |-> EngineCreate(index, dimension),
                 requests |-> <<"exists", "create">>, out |-> Returned(TRUE)]
           [] env.create = "already_exists" ->
                [index |-> EngineCreate(index, dimension),
                 requests |-> <<"exists", "create">>,
                 out |-> Raised("RequestError:resource_already_exists_exception")]
           [] env.create = "request_error" ->
                [index |-> index, requests |-> <<"exists", "create">>,
                 out |-> Raised("RequestError")]
           [] env.create = "raises" ->
                [index |-> index, requests |-> <<"exists", "create">>,
                 out |-> Raised("Exception")]

AlreadyExists == "RequestError:resource_already_exists_exception"

\* handlers that report every exception as a failure
CreateIndexHandlerStrict(error) == Returned(FALSE)

\* the handlers of create_index (lines 118-127): what it returns when its
\* try block raised error
CreateIndexHandler(error) ==
    IF error = AlreadyExists THEN Returned(TRUE) ELSE Returned(FALSE)

\* a create_index that sends the create request without the existence check
\* and reports every refusal as a failure
create_index_unchecked(index, dimension, env) ==
    IF index.exists \/ env.create # "ok"
    THEN [index |-> index, requests |-> <<"create">>, out |-> Returned(FALSE)]
    ELSE [index |-> EngineCreate(index, dimension), requests |-> <<"create">>,
          out |-> Returned(TRUE)]

\* OpenSearchVectorStore.create_index: the try block and its handlers
\* (lines 118-127)
create_index(index, dimension, env) ==
    LET t == create_index_try(index, dimension, env)
    IN IF ~t.out.raised THEN t
       ELSE [t EXCEPT !.out = CreateIndexHandler(t.out.value)]

\* what the engine does with the requests of one delete_index call
DeleteEnvs == [exists : {"answers", "raises"}, delete : {"ok", "raises"}]

\* a delete_index that sends the delete request without the existence
\* check; the engine refuses to delete a missing index
delete_index_unchecked(index, env) ==
    IF ~index.exists \/ env.delete = "raises"
    THEN [index |-> index, requests |-> <<"delete">>, out |-> Returned(FALSE)]
    ELSE [index |-> EngineDelete(index), requests |-> <<"delete">>,
          out |-> Returned(TRUE)]

\* OpenSearchVectorStore.delete_index
delete_index(index, env) ==
    IF env.exists = "raises"
    THEN [index |-> index, requests |-> <<"exists">>, out |-> Returned(FALSE)]
    ELSE IF ~index.exists
    THEN [index |-> index, requests |-> <<"exists">>, out |-> Returned(TRUE)]
    ELSE IF env.delete = "raises"
    THEN [index |-> index, requests |-> <<"exists", "delete">>, out |-> Returned(FALSE)]
    ELSE [index |-> EngineDelete(index), requests |-> <<"exists", "delete">>,
          out |-> Returned(TRUE)]

\* a bulk item that takes the page number as the document key
BulkItemKeyedByPage(chunk, embedding) ==
    [id  |-> ToString(chunk.page_number),
     doc |-> [content |-> chunk.content, embedding |-> embedding,
              metadata |-> chunk.metadata,
              page_number |-> chunk.page_number, chunk_id |-> chunk.chunk_id]]

\* a bulk item whose key carries the source file of the chunk
BulkItemKeyedBySource(chunk, embedding) ==
    [id  |-> chunk.metadata.source_file \o ":" \o chunk.chunk_id,
     doc |-> [content |-> chunk.content, embedding |-> embedding,
              metadata |-> chunk.metadata,
              page_number |-> chunk.page_number, chunk_id |-> chunk.chunk_id]]

\* the "index" action and the document add_documents puts in the bulk body
\* for one chunk (lines 148-168); the document copies the chunk's fields
BulkItem(chunk, embedding) ==
    [id  |-> chunk.chunk_id,
     doc |-> [content |-> chunk.content, embedding |-> embedding,
              metadata |-> chunk.metadata,
              page_number |-> chunk.page_number, chunk_id |-> chunk.chunk_id]]

\* the answers the engine can give to a bulk request of n items: all
\* stored, some rejected (response['errors'] with the rejected positions:
\* the first item, the last item, or every item), or no answer (the request raises and nothing is stored)
BulkResponses(n) ==
    { [kind |-> "ok", failed |-> {}], [kind |-> "raises", failed |-> {}] }
    \cup { [kind |-> "errors", failed |-> f] : f \in { {1}, {n}, 1..n } }

NumBatches(n) == (n + BULK_BATCH_SIZE - 1) \div BULK_BATCH_SIZE

\* chunks in the b-th batch of n chunks
BatchLen(n, b) ==
    IF n - (b - 1) * BULK_BATCH_SIZE < BULK_BATCH_SIZE
    THEN n - (b - 1) * BULK_BATCH_SIZE ELSE BULK_BATCH_SIZE

\* one answer per bulk request of an add_documents call over n chunks,
\* from the b-th request on
RECURSIVE BulkAnswers(_, _)
BulkAnswers(n, b) ==
    IF b > NumBatches(n) THEN { <<>> }
    ELSE { <<r>> \o rest : r \in BulkResponses(BatchLen(n, b)),
                           rest \in BulkAnswers(n, b + 1) }

\* what the engine does with the requests of one add_documents call over n
\* chunks: one answer per bulk request, and the refresh succeeds or raises
AddEnvs(n) == [bulk : BulkAnswers(n, 1), refresh : {"ok", "raises"}]

\* a batch loop that ends at the first bulk response that reports rejected
\* items
RECURSIVE AddLoopStopOnErrors(_, _, _, _, _, _)
AddLoopStopOnErrors(chunks_, embeddings_, env, i, b, st) ==
    IF i >= Len(chunks_) THEN [st EXCEPT !.out = Returned(TRUE)]
    ELSE LET batch_chunks     == Slice(chunks_, i, BULK_BATCH_SIZE)
             batch_embeddings == Slice(embeddings_, i, BULK_BATCH_SIZE)
             bulk_body == [j \in DOMAIN batch_chunks |->
                              BulkItem(batch_chunks[j], batch_embeddings[j])]
             response  == env.bulk[b]
         IN IF response.kind = "raises"
            THEN [st EXCEPT !.requests = Append(@, "bulk"),
                            !.out = Raised("Exception")]
            ELSE AddLoopStopOnErrors(chunks_, embeddings_, env,
                   IF response.kind = "errors" THEN Len(chunks_)
                   ELSE i + BULK_BATCH_SIZE,
                   b + 1,
                   [index         |-> EngineBulk(st.index, bulk_body, response.failed),
                    requests      |-> Append(st.requests, "bulk"),
                    success_count |-> st.success_count
                                      + Len(batch_chunks) - Cardinality(response.failed),
                    stored        |-> st.stored \cup
                                      { bulk_body[j].id :
                                          j \in DOMAIN bulk_body \ response.failed },
                    out           |-> st.out])

\* the batch loop of add_documents (lines 141-183) from chunk i on (counted
\* from 0); b is the number of the batch, st the index, the requests sent,
\* success_count and the keys stored so far
RECURSIVE AddLoop(_, _, _, _, _, _)
AddLoop(chunks_, embeddings_, env, i, b, st) ==
    IF i >= Len(chunks_) THEN [st EXCEPT !.out = Returned(TRUE)]
    ELSE LET batch_chunks     == Slice(chunks_, i, BULK_BATCH_SIZE)
             batch_embeddings == Slice(embeddings_, i, BULK_BATCH_SIZE)
             bulk_body == [j \in DOMAIN batch_chunks |->
                              BulkItem(batch_chunks[j], batch_embeddings[j])]
             response  == env.bulk[b]
         IN IF response.kind = "raises"
            THEN [st EXCEPT !.requests = Append(@, "bulk"),
                            !.out = Raised("Exception")]
            ELSE AddLoop(chunks_, embeddings_, env, i + BULK_BATCH_SIZE, b + 1,
                   [index         |-> EngineBulk(st.index, bulk_body, response.failed),
                    requests      |-> Append(st.requests, "bulk"),
                    success_count |-> st.success_count
                                      + Len(batch_chunks) - Cardinality(response.failed),
                    stored        |-> st.stored \cup
                                      { bulk_body[j].id :
                                          j \in DOMAIN bulk_body \ response.failed },
                    out           |-> st.out])

\* an add_documents that reports its result without refreshing the index
ReportWithoutRefresh(st, env) ==
    IF st.out.raised THEN st
    ELSE [st EXCEPT !.out = Returned(st.success_count > 0)]

\* add_documents after its batch loop (lines 185-189): the refresh and
\* the result
RefreshAndReport(st, env) ==
    IF st.out.raised THEN st
    ELSE IF env.refresh = "raises"
    THEN [st EXCEPT !.requests = Append(@, "refresh"),
                    !.out = Raised("Exception")]
    ELSE [st EXCEPT !.index = EngineRefresh(@),
                    !.requests = Append(@, "refresh"),
                    !.out = Returned(st.success_count > 0)]

\* add_documents before its first request
NothingSent(index) ==
    [index |-> index, requests |-> <<>>, success_count |-> 0,
     stored |-> {}, out |-> Returned(TRUE)]

\* the try block of add_documents (lines 132-189)
add_documents_try(index, chunks_, embeddings_, env) ==
    IF Len(chunks_) # Len(embeddings_)
    THEN [NothingSent(index) EXCEPT !.out = Raised("ValueError")]
    ELSE RefreshAndReport(
             AddLoop(chunks_, embeddings_, env, 0, 1, NothingSent(index)), env)

\* the handler of add_documents (lines 191-193)
AddDocumentsHandler(st) ==
    IF st.out.raised THEN [st EXCEPT !.out = Returned(FALSE)] ELSE st

\* an add_documents that checks the lengths only after the writes
add_documents_check_late(index, chunks_, embeddings_, env) ==
    IF Len(chunks_) = Len(embeddings_)
    THEN AddDocumentsHandler(add_documents_try(index, chunks_, embeddings_, env))
    ELSE IF Len(chunks_) < Len(embeddings_)
    THEN [add_documents_try(index, chunks_,
                            SubSeq(embeddings_, 1, Len(chunks_)), env)
            EXCEPT !.out = Returned(FALSE)]
    ELSE [add_documents_try(index, SubSeq(chunks_, 1, Len(embeddings_)),
                            embeddings_, env)
            EXCEPT !.out = Returned(FALSE)]

\* OpenSearchVectorStore.add_documents
add_documents(index, chunks_, embeddings_, env) ==
    AddDocumentsHandler(add_documents_try(index, chunks_, embeddings_, env))

---------------------------------------------------------------------------
(* rag_system.py: RAGSystem.process_and_index_document                     *)

\* batch_size default of create_embeddings_batch
DEFAULT_EMBED_BATCH_SIZE == 10

\* what the collaborators do during one process_and_index_document call
\* that produced n chunks: each create_embedding call answers or raises,
\* and the engine answers the requests of add_documents
ProcessEnvs(n) == [embed : [1..n -> {"ok", "raises"}], add : AddEnvs(n)]

\* process_and_index_document returning before add_documents is called
StoppedEarly(index, chunk_ids, embed_calls, out) ==
    [index |-> index, requests |-> <<>>, stored |-> {}, success_count |-> 0,
     chunk_ids |-> chunk_ids, embed_calls |-> embed_calls, out |-> out]

\* process_and_index_document returning what add_documents returned
\* (lines 104-112)
Indexed(chunk_ids, embed_calls, added) ==
    [index |-> added.index, requests |-> added.requests,
     stored |-> added.stored, success_count |-> added.success_count,
     chunk_ids |-> chunk_ids, embed_calls |-> embed_calls, out |-> added.out]

\* process_and_index_document after the embeddings were made (lines 99-112)
IndexChunks(index, chunks_, embeddings_, env) ==
    IF embeddings_.raised
    THEN StoppedEarly(index, [i \in DOMAIN chunks_ |-> chunks_[i].chunk_id],
                      Len(chunks_), embeddings_)
    ELSE IF Len(embeddings_.value) # Len(chunks_)
    THEN StoppedEarly(index, [i \in DOMAIN chunks_ |-> chunks_[i].chunk_id],
                      Len(chunks_), Returned(FALSE))
    ELSE Indexed([i \in DOMAIN chunks_ |-> chunks_[i].chunk_id], Len(chunks_),
                 add_documents(index, chunks_, embeddings_.value, env.add))

\* a pipeline that goes on to embed and index when the document gave no
\* chunks
EmbedAndIndexEmpty(index, chunks_, env) ==
    IF chunks_.raised THEN StoppedEarly(index, <<>>, 0, Raised(chunks_.value))
    ELSE IndexChunks(index, chunks_.value,
                     create_embeddings_batch(
                         [i \in DOMAIN chunks_.value |-> chunks_.value[i].content],
                         env.embed, DEFAULT_EMBED_BATCH_SIZE),
                     env)

\* process_and_index_document after the document was processed (lines
\* 88-112)
EmbedAndIndex(index, chunks_, env) ==
    IF chunks_.raised THEN StoppedEarly(index, <<>>, 0, Raised(chunks_.value))
    ELSE IF chunks_.value = <<>> THEN StoppedEarly(index, <<>>, 0, Returned(FALSE))
    ELSE IndexChunks(index, chunks_.value,
                     create_embeddings_batch(
                         [i \in DOMAIN chunks_.value |-> chunks_.value[i].content],
                         env.embed, DEFAULT_EMBED_BATCH_SIZE),
                     env)

\* the try block of process_and_index_document (lines 83-112); chunk_ids
\* are the ids of the chunks the document processor returned
process_and_index_document_try(index, pdf_path, env) ==
    EmbedAndIndex(index, ProcessedDocuments[pdf_path], env)

\* the handler of process_and_index_document (lines 114-116)
ProcessHandler(t) ==
    IF t.out.raised THEN [t EXCEPT !.out = Returned(FALSE)] ELSE t

\* RAGSystem.process_and_index_document
process_and_index_document(index, pdf_path, env) ==
    ProcessHandler(process_and_index_document_try(index, pdf_path, env))

\* what the engine does during one reset_system call
ResetEnvs == [delete : DeleteEnvs, create : CreateEnvs]

\* reset_system after delete_index returned (lines 296-306): deleted is
\* what delete_index returned, created what create_index would return
ResetOutcome(deleted, created) ==
    IF deleted.out # Returned(TRUE)
    THEN [index |-> deleted.index, requests |-> deleted.requests,
          deleted |-> FALSE, out |-> Returned(FALSE)]
    ELSE [index |-> created.index,
          requests |-> deleted.requests \o created.requests,
          deleted |-> TRUE,
          out |-> Returned(created.out = Returned(TRUE))]

\* a reset that goes on to create the index whatever delete_index returned
reset_system_ignoring_delete(index, env) ==
    LET deleted == delete_index(index, env.delete)
        created == create_index(deleted.index, EMBEDDING_DIMENSION, env.create)
    IN [index |-> created.index,
        requests |-> deleted.requests \o created.requests,
        deleted |-> deleted.out = Returned(TRUE),
        out |-> Returned(created.out = Returned(TRUE))]

\* RAGSystem.reset_system (lines 290-310); neither of the two calls raises,
\* so the handler of lines 308-310 has nothing to catch
reset_system(index, env) ==
    LET deleted == delete_index(index, env.delete)
    IN ResetOutcome(deleted,
                    create_index(deleted.index, EMBEDDING_DIMENSION, env.create))

---------------------------------------------------------------------------
(* rag_system.py: RAGSystem.search, generate_answer and query, with the   *)
(* two search methods of the vector store.  A text is known by its number *)
(* of characters; a stored content can be null.  A call yields what it    *)
(* returned or raised (out), the remote calls it made in order (calls)    *)
(* and the exceptions caught on the way, each with the method that caught *)
(* it (caught).                                                           *)

\* most hits the engine holds for a query
MaxHits == 2

\* default of generate_answer's max_context_length
MAX_CONTEXT_LENGTH == 4000

\* characters of content a source entry keeps before "..."
SOURCE_PREVIEW_CHARS == 200

Questions == { "question_a" }

\* the two supported search types, the third one the chat UI offers, and a
\* misspelt one
SearchTypes == { "vector", "hybrid", "keyword", "VECTOR" }

\* content of a stored document: a string of len characters, or null
Contents ==
    { [null |-> TRUE, len |-> 0],
      [null |-> FALSE, len |-> SOURCE_PREVIEW_CHARS - 50],
      [null |-> FALSE, len |-> SOURCE_PREVIEW_CHARS + 50] }

\* a hit of the engine: complete says whether _source holds every field
\* the store reads from it
Hits == [content : Contents, complete : BOOLEAN, page_number : {1}]

\* the clock ticks between the two datetime.now() calls of a query
Elapsed == { 0, 1 }

\* what the collaborators do during one query: the embedding call, the
\* engine's search (it raises, or answers with its hits in ranking order),
\* the chat model (it answers, raises, or answers with a body that has no
\* text), and the clock
QueryEnvs ==
    [embed   : CallOutcomes,
     engine  : { "answers", "raises" },
     hits    : SeqsUpTo(Hits, MaxHits),
     chat    : { "ok", "raises", "malformed" },
     elapsed : Elapsed]

Caught(where, error) == [where |-> where, error |-> error]

\* the remote calls of a query: the embedding model, the chat model, and
\* the engine's search with the body it is sent
EmbedCall == [to |-> "embed"]
ChatCall  == [to |-> "chat"]
SearchCall(body) == [to |-> "search", body |-> body]

\* alpha and the boosts are counted in hundredths: One is the 1 of
\* 1 - alpha
One == 100

\* default of hybrid_search's alpha, 0.7
DEFAULT_ALPHA == 70

\* the body OpenSearchVectorStore.search sends without filters (lines
\* 200-207 and 235-241)
knn_search_body(query_embedding, k) ==
    [query  |-> [knn |-> [embedding |-> [vector |-> query_embedding, k |-> k]]],
     size   |-> k,
     source |-> [excludes |-> << "embedding" >>]]

\* a hybrid search body that holds the vector clause only
search_body_vector_only(query_text, query_embedding, k, alpha) ==
    [query  |->
        [bool |->
            [should |->
                << [knn |-> [embedding |-> [vector |-> query_embedding,
                                            k      |-> k,
                                            boost  |-> alpha]]] >>]],
     size   |-> k,
     source |-> [excludes |-> << "embedding" >>]]

\* search_body of hybrid_search (lines 270-298)
search_body(query_text, query_embedding, k, alpha) ==
    [query  |->
        [bool |->
            [should |->
                << [knn |-> [embedding |-> [vector |-> query_embedding,
                                            k      |-> k,
                                            boost  |-> alpha]]],
                   [multi_match |-> [query  |-> query_text,
                                     fields |-> << "content^2",
                                                   "image_descriptions" >>,
                                     type   |-> "best_fields",
                                     boost  |-> One - alpha]] >>]],
     size   |-> k,
     source |-> [excludes |-> << "embedding" >>]]

\* the result dictionary the store builds from one hit (lines 245-255 and
\* 308-318); a missing field raises KeyError
ParseHit(hit) ==
    IF ~hit.complete THEN Raised("KeyError")
    ELSE Returned([content |-> hit.content, page_number |-> hit.page_number,
                   score |-> 1, section_type |-> "general", has_images |-> FALSE])

RECURSIVE ParseHits(_, _)
ParseHits(hits, results) ==
    IF hits = <<>> THEN Returned(results)
    ELSE LET result == ParseHit(Head(hits))
         IN IF result.raised THEN result
            ELSE ParseHits(Tail(hits), Append(results, result.value))

\* the try block of OpenSearchVectorStore.search and of hybrid_search: one
\* search with the body request, answered with at most k hits, then the
\* parse of its hits
EngineSearch(request, k, env) ==
    IF env.engine = "raises"
    THEN [out |-> Raised("Exception"), calls |-> << SearchCall(request) >>]
    ELSE [out   |-> ParseHits(SubSeq(env.hits, 1,
                                     IF k < Len(env.hits) THEN k ELSE Len(env.hits)),
                              <<>>),
          calls |-> << SearchCall(request) >>]

\* the handler of a store search (lines 262-264 and 323-325): what was
\* raised is logged and the result is the empty list
StoreSearchHandler(where, t) ==
    IF t.out.raised
    THEN [out |-> Returned(<<>>), calls |-> t.calls,
          caught |-> << Caught(where, t.out.value) >>]
    ELSE [out |-> t.out, calls |-> t.calls, caught |-> <<>>]

\* OpenSearchVectorStore.search
vector_search(query_embedding, k, env) ==
    StoreSearchHandler("OpenSearchVectorStore.search",
                       EngineSearch(knn_search_body(query_embedding, k), k, env))

\* OpenSearchVectorStore.hybrid_search
hybrid_search(query_text, query_embedding, k, alpha, env) ==
    StoreSearchHandler("OpenSearchVectorStore.hybrid_search",
                       EngineSearch(search_body(query_text, query_embedding,
                                                k, alpha),
                                    k, env))

\* a dispatch that falls back to the hybrid search for every search type
\* it does not know
SearchByTypeDefaultHybrid(query_, query_embedding, k, search_type, env) ==
    IF search_type = "vector" THEN vector_search(query_embedding, k, env)
    ELSE hybrid_search(query_, query_embedding, k, DEFAULT_ALPHA, env)

\* the search RAGSystem.search performs for a search type (lines 131-137)
SearchByType(query_, query_embedding, k, search_type, env) ==
    IF search_type = "vector" THEN vector_search(query_embedding, k, env)
    ELSE IF search_type = "hybrid"
    THEN hybrid_search(query_, query_embedding, k, DEFAULT_ALPHA, env)
    ELSE [out |-> Returned(<<>>), calls |-> <<>>, caught |-> <<>>]

\* a result of RAGSystem.search reached after the embedding call
AfterEmbedding(results) ==
    [out |-> results.out, calls |-> << EmbedCall >> \o results.calls,
     caught |-> results.caught]

\* a search that goes on with the zero vector when the embedding call fails
search_try_zero_vector(query_, k, search_type, env) ==
    LET query_embedding == create_embedding(query_, env.embed)
    IN IF query_embedding.raised
       THEN AfterEmbedding(SearchByType(query_, ZeroVector, k, search_type, env))
       ELSE AfterEmbedding(SearchByType(query_, query_embedding.value, k,
                                        search_type, env))

\* the try block of RAGSystem.search (lines 120-140)
search_try(query_, k, search_type, env) ==
    LET query_embedding == create_embedding(query_, env.embed)
    IN IF query_embedding.raised
       THEN [out |-> query_embedding, calls |-> << EmbedCall >>, caught |-> <<>>]
       ELSE IF query_embedding.value.dim = 0
       THEN [out |-> Returned(<<>>), calls |-> << EmbedCall >>, caught |-> <<>>]
       ELSE AfterEmbedding(SearchByType(query_, query_embedding.value, k,
                                        search_type, env))

\* the handler of RAGSystem.search (lines 142-144)
SearchHandler(t) ==
    IF t.out.raised
    THEN [out |-> Returned(<<>>), calls |-> t.calls,
          caught |-> Append(t.caught, Caught("RAGSystem.search", t.out.value))]
    ELSE t

\* RAGSystem.search
search(query_, k, search_type, env) ==
    SearchHandler(search_try(query_, k, search_type, env))

\* the answers of generate_answer and query: a fixed text, the chat
\* model's text, or a fixed prefix followed by the text of an exception
NothingFound == [text |-> "nothing_found", detail |-> ""]
ModelAnswer  == [text |-> "model_answer", detail |-> ""]
GenerationError(e) == [text |-> "generation_error:", detail |-> e]
QueryError(e)      == [text |-> "error:", detail |-> e]

\* len(f"{content} {page_info}") of one result (lines 158-161); a null
\* content is formatted as None, the page annotation of a one-digit page
\* number has 7 characters
PartLen(result) ==
    (IF result.content.null THEN 4 ELSE result.content.len) + 1 + 7

\* part = f"{content} {page_info}" of one result: the content and the page
\* number it is made of, and its length
Part(result) ==
    [content |-> result.content, page_number |-> result.page_number,
     len |-> PartLen(result)]

\* a context loop that passes over a result that does not fit and goes on
\* with the results after it
RECURSIVE ContextLoopSkipping(_, _, _, _)
ContextLoopSkipping(search_results, context_parts, current_length, max_context_length) ==
    IF search_results = <<>> THEN context_parts
    ELSE IF current_length + PartLen(Head(search_results)) > max_context_length
    THEN ContextLoopSkipping(Tail(search_results), context_parts, current_length,
                             max_context_length)
    ELSE ContextLoopSkipping(Tail(search_results),
                             Append(context_parts, Part(Head(search_results))),
                             current_length + PartLen(Head(search_results)),
                             max_context_length)

\* the context loop of generate_answer (lines 157-167): the parts it keeps
RECURSIVE ContextLoop(_, _, _, _)
ContextLoop(search_results, context_parts, current_length, max_context_length) ==
    IF search_results = <<>> THEN context_parts
    ELSE IF current_length + PartLen(Head(search_results)) > max_context_length
    THEN context_parts
    ELSE ContextLoop(Tail(search_results),
                     Append(context_parts, Part(Head(search_results))),
                     current_length + PartLen(Head(search_results)),
                     max_context_length)

\* a chat model invocation that is repeated once when it fails
InvokeChatModelRetrying(context, env) ==
    [out     |-> CASE env.chat = "ok"        -> Returned(ModelAnswer)
                   [] env.chat = "raises"    -> Raised("ClientError")
                   [] env.chat = "malformed" -> Raised("KeyError"),
     calls   |-> IF env.chat = "ok" THEN << ChatCall >> ELSE << ChatCall, ChatCall >>,
     context |-> context]

\* len("\n\n".join(context_parts)): the parts and two characters between
\* each two of them
JoinedLen(context_parts) ==
    SumSeq([i \in DOMAIN context_parts |-> context_parts[i].len])
      + (IF context_parts = <<>> THEN 0 ELSE 2 * (Len(context_parts) - 1))

\* the chat model invoked with a prompt built around context, and the
\* parse of its response (lines 186-207)
InvokeChatModel(context, env) ==
    [out     |-> CASE env.chat = "ok"        -> Returned(ModelAnswer)
                   [] env.chat = "raises"    -> Raised("ClientError")
                   [] env.chat = "malformed" -> Raised("KeyError"),
     calls   |-> << ChatCall >>,
     context |-> context]

\* the try block of generate_answer (lines 149-210)
generate_answer_try(query_, search_results, max_context_length, env) ==
    IF search_results = <<>>
    THEN [out |-> Returned(NothingFound), calls |-> <<>>, context |-> <<>>]
    ELSE InvokeChatModel(ContextLoop(search_results, <<>>, 0, max_context_length),
                         env)

\* a handler of generate_answer that hides what was raised behind the fixed
\* answer
GenerateAnswerHandlerSilent(t) ==
    IF t.out.raised
    THEN [out |-> Returned(NothingFound), calls |-> t.calls,
          context |-> t.context,
          caught |-> << Caught("RAGSystem.generate_answer", t.out.value) >>]
    ELSE [out |-> t.out, calls |-> t.calls, context |-> t.context,
          caught |-> <<>>]

\* the handler of generate_answer (lines 212-214)
GenerateAnswerHandler(t) ==
    IF t.out.raised
    THEN [out |-> Returned(GenerationError(t.out.value)), calls |-> t.calls,
          context |-> t.context,
          caught |-> << Caught("RAGSystem.generate_answer", t.out.value) >>]
    ELSE [out |-> t.out, calls |-> t.calls, context |-> t.context,
          caught |-> <<>>]

\* RAGSystem.generate_answer
generate_answer(query_, search_results, max_context_length, env) ==
    GenerateAnswerHandler(
        generate_answer_try(query_, search_results, max_context_length, env))

\* a source entry that cuts a long content without marking the cut
SourceOfPlainCut(result) ==
    IF result.content.null THEN Raised("TypeError")
    ELSE Returned(
           [content |-> IF result.content.len > SOURCE_PREVIEW_CHARS
                        THEN [null |-> FALSE, len |-> SOURCE_PREVIEW_CHARS]
                        ELSE result.content,
            page_number |-> result.page_number, score |-> result.score,
            section_type |-> result.section_type,
            has_images |-> result.has_images])

\* the source entry query builds from one result (lines 238-244); len of
\* a null content raises TypeError
SourceOf(result) ==
    IF result.content.null THEN Raised("TypeError")
    ELSE Returned(
           [content |-> IF result.content.len > SOURCE_PREVIEW_CHARS
                        THEN [null |-> FALSE, len |-> SOURCE_PREVIEW_CHARS + 3]
                        ELSE result.content,
            page_number |-> result.page_number, score |-> result.score,
            section_type |-> result.section_type,
            has_images |-> result.has_images])

\* the sources loop of query (lines 236-245)
RECURSIVE SourcesLoop(_, _)
SourcesLoop(search_results, sources) ==
    IF search_results = <<>> THEN Returned(sources)
    ELSE IF SourceOf(Head(search_results)).raised
    THEN SourceOf(Head(search_results))
    ELSE SourcesLoop(Tail(search_results),
                     Append(sources, SourceOf(Head(search_results)).value))

\* query after a search that found results (lines 232-256)
AnswerFound(question, search_type, env, search_results, answer, sources) ==
    [out |-> IF sources.raised THEN sources
             ELSE Returned([question      |-> question,
                            answer        |-> answer.out.value,
                            sources       |-> sources.value,
                            search_time   |-> env.elapsed,
                            search_type   |-> search_type,
                            results_count |-> Len(search_results.out.value)]),
     found  |-> search_results.out.value,
     calls  |-> search_results.calls \o answer.calls,
     caught |-> search_results.caught \o answer.caught]

\* query after the search (lines 224-256); found is what the search
\* returned
AfterSearch(question, search_type, env, search_results) ==
    IF search_results.out.value = <<>>
    THEN [out |-> Returned([question    |-> question,
                            answer      |-> NothingFound,
                            sources     |-> <<>>,
                            search_time |-> env.elapsed]),
          found |-> <<>>, calls |-> search_results.calls,
          caught |-> search_results.caught]
    ELSE AnswerFound(question, search_type, env, search_results,
                     generate_answer(question, search_results.out.value,
                                     MAX_CONTEXT_LENGTH, env),
                     SourcesLoop(search_results.out.value, <<>>))

\* the try block of query (lines 218-256)
query_try(question, k, search_type, env) ==
    AfterSearch(question, search_type, env, search(question, k, search_type, env))

\* the handler of query (lines 258-266)
QueryHandler(question, t) ==
    IF t.out.raised
    THEN [t EXCEPT !.out = Returned([question    |-> question,
                                     answer      |-> QueryError(t.out.value),
                                     sources     |-> <<>>,
                                     search_time |-> 0,
                                     error       |-> t.out.value]),
                   !.caught = Append(@, Caught("RAGSystem.query", t.out.value))]
    ELSE t

\* a query that lets what its body raises through
query_unguarded(question, k, search_type, env) ==
    query_try(question, k, search_type, env)

\* RAGSystem.query
query(question, k, search_type, env) ==
    QueryHandler(question, query_try(question, k, search_type, env))

---------------------------------------------------------------------------
(* State                                                                   *)

VARIABLES
    phase,        \* which operation of the component under check ran last
    content,      \* create_chunks: markdown_content of its argument
    chunks,       \* create_chunks: the list it returned
    text,         \* identify_section_type: its argument
    section_type, \* identify_section_type: its result
    texts,        \* create_embeddings_batch: its argument
    call_outcomes,\* create_embeddings_batch: what each create_embedding call does
    batch_size,   \* create_embeddings_batch: its argument
    embeddings,   \* create_embeddings_batch: what it returned or raised
    index,        \* the search engine's index OPENSEARCH_INDEX_NAME
    last,         \* the last call to the vector store or the pipeline: what it
                  \* was given, sent, stored and returned, and whether it
                  \* changed the index or its key set
    prev,         \* of the call before it: what it was, and whether it stored
                  \* every chunk it was given
    query_call,   \* query: its arguments and what its collaborators do
    query_result, \* query: what it returned or raised, what the retrieval
                  \* step found, the remote calls made, the exceptions caught
    answer_call,  \* generate_answer: its arguments and what the chat model does
    answer_result, \* generate_answer: what it returned, the context it built,
                  \* the remote calls made, the exceptions caught
    search_call,  \* hybrid_search: its arguments and what the engine does
    search_result, \* hybrid_search: what it returned, the requests it sent,
                  \* the exceptions caught
    clients,      \* concurrent create_index calls: where each client is, the
                  \* requests it sent, the error it received, what it returned
    served,       \* the requests of the clients in the order the engine
                  \* served them, each with the engine's answer
    sessions,     \* concurrent log_qa_session calls: where each chat session
                  \* is, what it logs, the rows it read, the exceptions
                  \* caught, what it returned or raised
    log_files     \* the lines of qa_sessions.jsonl, the rows of
                  \* qa_sessions.csv and the lines of the daily log

chunkVars    == <<content, chunks>>
classifyVars == <<text, section_type>>

embedVars    == <<texts, call_outcomes, batch_size, embeddings>>

storeVars    == <<index, last, prev>>

queryVars    == <<query_call, query_result>>

answerVars   == <<answer_call, answer_result>>

searchVars   == <<search_call, search_result>>

clientVars   == <<clients, served>>

logVars      == <<sessions, log_files>>

vars == <<phase, chunkVars, classifyVars, embedVars, storeVars, queryVars,
          answerVars, searchVars, clientVars, logVars>>

\* the components a specification does not exercise stay as constructed
ChunkIdle    == content = <<>> /\ chunks = <<>>
ClassifyIdle == text = <<>> /\ section_type = ""
EmbedIdle    == texts = <<>> /\ call_outcomes = <<>> /\ batch_size = 10
                /\ embeddings = [raised |-> FALSE, value |-> <<>>]

NoCall == [op |-> "none", arg |-> "", out |-> Returned(TRUE), requests |-> <<>>,
           changed |-> FALSE, keys_changed |-> FALSE, chunk_ids |-> <<>>,
           stored |-> {}, n_chunks |-> 0, n_embeddings |-> 0]

\* what the model keeps of a call once another call has followed it
Summary(call) ==
    [op |-> call.op, arg |-> call.arg, out |-> call.out,
     chunk_ids |-> call.chunk_ids,
     stored_all |-> call.stored = Range(call.chunk_ids)]

StoreIdle    == index = NoIndex /\ last = NoCall /\ prev = Summary(NoCall)

NoQuery      == [question |-> "", k |-> 0, search_type |-> "", env |-> <<>>]

NoResult     == [out |-> Returned(<<>>), found |-> <<>>, calls |-> <<>>,
                 caught |-> <<>>]

QueryIdle    == query_call = NoQuery /\ query_result = NoResult

NoAnswerCall == [search_results |-> <<>>, max_context_length |-> 0, env |-> <<>>]

NoAnswer     == [out |-> Returned(NothingFound), calls |-> <<>>,
                 context |-> <<>>, caught |-> <<>>]

AnswerIdle   == answer_call = NoAnswerCall /\ answer_result = NoAnswer

NoSearchCall == [query_text |-> "", query_embedding |-> <<>>, k |-> 0,
                 alpha |-> 0, env |-> <<>>]

NoSearch     == [out |-> Returned(<<>>), calls |-> <<>>, caught |-> <<>>]

SearchIdle   == search_call = NoSearchCall /\ search_result = NoSearch

ClientsIdle  == clients = <<>> /\ served = <<>>

\* the log files after QALogManager.__init__ in a new directory: the csv
\* has its header and no row
NewLogFiles  == [jsonl |-> <<>>, csv |-> <<>>, daily |-> <<>>]

LogIdle      == sessions = <<>> /\ log_files = NewLogFiles

---------------------------------------------------------------------------
(* Chunking: one create_chunks run per document                            *)

InitChunk ==
    /\ phase = "start"
    /\ content \in Documents
    /\ chunks = <<>>
    /\ ClassifyIdle /\ EmbedIdle /\ StoreIdle /\ QueryIdle /\ AnswerIdle
    /\ SearchIdle
    /\ ClientsIdle /\ LogIdle

CreateChunks ==
    /\ phase = "start"
    /\ chunks' = create_chunks(Content(content, ""))
    /\ phase' = "chunked"
    /\ UNCHANGED <<content, classifyVars, embedVars, storeVars, queryVars, answerVars,
                 searchVars, clientVars, logVars>>

NextChunk == CreateChunks

SpecChunk == InitChunk /\ [][NextChunk]_vars

---------------------------------------------------------------------------
(* Section typing: one identify_section_type call per text                 *)

InitClassify ==
    /\ phase = "start"
    /\ text \in Texts
    /\ section_type = ""
    /\ ChunkIdle /\ EmbedIdle /\ StoreIdle /\ QueryIdle /\ AnswerIdle
    /\ SearchIdle
    /\ ClientsIdle /\ LogIdle

IdentifySectionType ==
    /\ phase = "start"
    /\ section_type' = identify_section_type(text)
    /\ phase' = "classified"
    /\ UNCHANGED <<text, chunkVars, embedVars, storeVars, queryVars, answerVars,
                 searchVars, clientVars, logVars>>

NextClassify == IdentifySectionType

SpecClassify == InitClassify /\ [][NextClassify]_vars

---------------------------------------------------------------------------
(* Embedding: one create_embeddings_batch call                             *)

InitEmbed ==
    /\ phase = "start"
    /\ texts \in SeqsUpTo(EmbedTexts, MaxTexts)
    /\ call_outcomes \in [DOMAIN texts -> CallOutcomes]
    /\ batch_size \in 1..MaxBatchSize
    /\ embeddings = [raised |-> FALSE, value |-> <<>>]
    /\ ChunkIdle /\ ClassifyIdle /\ StoreIdle /\ QueryIdle /\ AnswerIdle
    /\ SearchIdle
    /\ ClientsIdle /\ LogIdle

CreateEmbeddingsBatch ==
    /\ phase = "start"
    /\ embeddings' = create_embeddings_batch(texts, call_outcomes, batch_size)
    /\ phase' = "embedded"
    /\ UNCHANGED <<texts, call_outcomes, batch_size, chunkVars, classifyVars, storeVars, queryVars, answerVars,
                 searchVars, clientVars, logVars>>

NextEmbed == CreateEmbeddingsBatch

SpecEmbed == InitEmbed /\ [][NextEmbed]_vars

---------------------------------------------------------------------------
(* Index lifecycle and indexing: calls of one client, in any order         *)

InitStore ==
    /\ phase = "store"
    /\ StoreIdle
    /\ ChunkIdle /\ ClassifyIdle /\ EmbedIdle /\ QueryIdle /\ AnswerIdle
    /\ SearchIdle
    /\ ClientsIdle /\ LogIdle

\* the record of a call that took the index from before to r.index
CallRecord(op, arg, before, r, ids, stored, n_chunks, n_embeddings) ==
    [op |-> op, arg |-> arg, out |-> r.out, requests |-> r.requests,
     changed |-> r.index # before, keys_changed |-> Keys(r.index) # Keys(before),
     chunk_ids |-> ids, stored |-> stored,
     n_chunks |-> n_chunks, n_embeddings |-> n_embeddings]

StoreCall(r, rec) ==
    /\ index' = r.index
    /\ prev' = Summary(last)
    /\ last' = rec
    /\ UNCHANGED <<phase, chunkVars, classifyVars, embedVars, queryVars, answerVars,
                 searchVars, clientVars, logVars>>

CreateIndex ==
    \E env \in CreateEnvs :
        \E r \in { create_index(index, EMBEDDING_DIMENSION, env) } :
           StoreCall(r, CallRecord("create_index", env.exists, index, r, <<>>, {}, 0, 0))

DeleteIndex ==
    \E env \in DeleteEnvs :
        \E r \in { delete_index(index, env) } :
           StoreCall(r, CallRecord("delete_index", env.exists, index, r, <<>>, {}, 0, 0))

\* add_documents with the chunks of a readable file and n_embeddings
\* embeddings, as many as there are chunks or not
AddDocuments ==
    \E pdf_path \in PdfFiles \ {"corrupt.pdf"} :
        LET chunks_ == ProcessedDocuments[pdf_path].value
        IN \E n_embeddings \in 0..(Len(chunks_) + 1) :
             LET embeddings_ == [i \in 1..n_embeddings |->
                                    IF i <= Len(chunks_)
                                    THEN ModelVector(chunks_[i].content)
                                    ELSE ZeroVector]
             IN \E env \in AddEnvs(Len(chunks_)) :
                  \E r \in { add_documents(index, chunks_, embeddings_, env) } :
                     StoreCall(r, CallRecord("add_documents", pdf_path, index, r,
                                             [i \in DOMAIN chunks_ |-> chunks_[i].chunk_id],
                                             r.stored, Len(chunks_), n_embeddings))

\* the chunk of a page that is one short section
ShortChunk ==
    create_chunks(Content(<< StrPage(<< [head |-> TRUE, tok |-> 1,
                                         stop |-> FALSE] >>) >>,
                          "large.pdf"))[1]

\* the chunks of a manual of one more page than a bulk request takes
\* chunks, each page a short section of its own
LargeChunks ==
    [i \in 1..(BULK_BATCH_SIZE + 1) |->
        [ShortChunk EXCEPT !.page_number = i, !.chunk_id = ChunkIdStr(i - 1)]]

\* add_documents with the chunks of the large manual and their embeddings
AddManyDocuments ==
    \E chunks_ \in { LargeChunks } :
      \E env \in AddEnvs(Len(chunks_)) :
        \E r \in { add_documents(index, chunks_,
                                  [i \in DOMAIN chunks_ |->
                                      ModelVector(chunks_[i].content)],
                                  env) } :
           StoreCall(r, CallRecord("add_documents", "large.pdf", index, r,
                                   [i \in DOMAIN chunks_ |-> chunks_[i].chunk_id],
                                   r.stored, Len(chunks_), Len(chunks_)))

ProcessAndIndexDocument ==
    \E pdf_path \in PdfFiles :
        LET found == ProcessedDocuments[pdf_path]
            n == IF found.raised THEN 0 ELSE Len(found.value)
        IN \E env \in ProcessEnvs(n) :
             \E r \in { process_and_index_document(index, pdf_path, env) } :
                StoreCall(r, CallRecord("process_and_index_document", pdf_path, index, r,
                                        r.chunk_ids, r.stored, n, r.embed_calls))

NextStore ==
    \/ CreateIndex
    \/ DeleteIndex
    \/ AddDocuments

SpecStore == InitStore /\ [][NextStore]_vars

---------------------------------------------------------------------------
(* The indexing pipeline: documents processed and indexed one after the    *)
(* other, the index deleted in between or not                              *)

NextPipeline ==
    \/ ProcessAndIndexDocument
    \/ DeleteIndex

SpecPipeline == InitStore /\ [][NextPipeline]_vars

---------------------------------------------------------------------------
(* Bulk indexing: a manual that takes more than one bulk request, indexed  *)
(* again and again, the index deleted in between or not                    *)

NextBulk ==
    \/ AddManyDocuments
    \/ DeleteIndex

SpecBulk == InitStore /\ [][NextBulk]_vars

---------------------------------------------------------------------------
(* The system reset: documents processed and indexed, the system reset in  *)
(* between or not                                                          *)

ResetSystem ==
    \E env \in ResetEnvs :
        \E r \in { reset_system(index, env) } :
           StoreCall(r, CallRecord("reset_system",
                                   IF r.deleted THEN "deleted" ELSE "delete_failed",
                                   index, r, <<>>, {}, 0, 0))

NextReset ==
    \/ ProcessAndIndexDocument
    \/ ResetSystem

SpecReset == InitStore /\ [][NextReset]_vars

---------------------------------------------------------------------------
(* Question answering: one query call                                      *)

QueryCalls ==
    [question : Questions, k : 1..MaxHits, search_type : SearchTypes,
     env : QueryEnvs]

InitQuery ==
    /\ phase = "start"
    /\ query_call \in QueryCalls
    /\ query_result = NoResult
    /\ ChunkIdle /\ ClassifyIdle /\ EmbedIdle /\ StoreIdle /\ AnswerIdle
    /\ SearchIdle
    /\ ClientsIdle /\ LogIdle

Query ==
    /\ phase = "start"
    /\ query_result' = query(query_call.question, query_call.k,
                             query_call.search_type, query_call.env)
    /\ phase' = "answered"
    /\ UNCHANGED <<query_call, chunkVars, classifyVars, embedVars, storeVars, answerVars,
                 searchVars, clientVars, logVars>>

NextQuery == Query

SpecQuery == InitQuery /\ [][NextQuery]_vars

---------------------------------------------------------------------------
(* Answer generation: one generate_answer call                             *)

\* most results given to generate_answer
MaxResults == 5

\* contents whose parts take a quarter of the default context length, half
\* of it, and one character more than half of it
ContextContents ==
    { [null |-> FALSE, len |-> MAX_CONTEXT_LENGTH \div 4 - 8],
      [null |-> FALSE, len |-> MAX_CONTEXT_LENGTH \div 2 - 8],
      [null |-> FALSE, len |-> MAX_CONTEXT_LENGTH \div 2 - 7] }

\* the search results generate_answer is given, in ranking order
AnswerResults ==
    [content : ContextContents, page_number : {1}, score : {1},
     section_type : {"general"}, has_images : {FALSE}]

AnswerCalls ==
    [search_results     : SeqsUpTo(AnswerResults, MaxResults),
     max_context_length : { MAX_CONTEXT_LENGTH \div 2, MAX_CONTEXT_LENGTH },
     env                : [chat : { "ok", "raises", "malformed" }]]

InitAnswer ==
    /\ phase = "start"
    /\ answer_call \in AnswerCalls
    /\ answer_result = NoAnswer
    /\ ChunkIdle /\ ClassifyIdle /\ EmbedIdle /\ StoreIdle /\ QueryIdle
    /\ SearchIdle
    /\ ClientsIdle /\ LogIdle

GenerateAnswer ==
    /\ phase = "start"
    /\ answer_result' = generate_answer("question_a", answer_call.search_results,
                                        answer_call.max_context_length,
                                        answer_call.env)
    /\ phase' = "generated"
    /\ UNCHANGED <<answer_call, chunkVars, classifyVars, embedVars, storeVars,
                   queryVars, searchVars, clientVars, logVars>>

NextAnswer == GenerateAnswer

SpecAnswer == InitAnswer /\ [][NextAnswer]_vars

---------------------------------------------------------------------------
(* Page coercion: one create_chunks run over pages of every form           *)

\* pages of one document
MaxPages == 3

\* the texts of a page or of a field: whitespace only, one line of body
\* text, a heading followed by a line of body text
PageTexts ==
    { << BlankLine >>,
      << [head |-> FALSE, tok |-> HalfLine, stop |-> TRUE] >>,
      << [head |-> TRUE, tok |-> HalfLine, stop |-> FALSE],
         [head |-> FALSE, tok |-> HalfLine, stop |-> TRUE] >> }

FieldValues == { Absent } \cup { Str(t) : t \in PageTexts }

PageValues ==
    { StrPage(t) : t \in PageTexts }
      \cup { DictPage(t, c) : t \in FieldValues, c \in FieldValues }

InitPages ==
    /\ phase = "start"
    /\ content \in SeqsUpTo(PageValues, MaxPages)
    /\ chunks = <<>>
    /\ ClassifyIdle /\ EmbedIdle /\ StoreIdle /\ QueryIdle /\ AnswerIdle
    /\ SearchIdle
    /\ ClientsIdle /\ LogIdle

SpecPages == InitPages /\ [][NextChunk]_vars

---------------------------------------------------------------------------
(* Hybrid search: one hybrid_search call per behaviour                     *)

\* values of k: a single hit, fewer hits than the engine holds, the default
SearchSizes == { 1, MaxHits, 5 }

\* values of alpha in hundredths: the two ends, the middle, the default
\* and its mirror image
Alphas == { 0, One - DEFAULT_ALPHA, 50, DEFAULT_ALPHA, One }

QueryTexts == { "question_a", "question_b" }

SearchCalls ==
    [query_text      : QueryTexts,
     query_embedding : { ModelVector(t) : t \in QueryTexts },
     k               : SearchSizes,
     alpha           : Alphas,
     env             : [engine : { "answers", "raises" },
                        hits   : SeqsUpTo(Hits, MaxHits)]]

InitHybrid ==
    /\ phase = "start"
    /\ search_call \in SearchCalls
    /\ search_result = NoSearch
    /\ ChunkIdle /\ ClassifyIdle /\ EmbedIdle /\ StoreIdle /\ QueryIdle
    /\ AnswerIdle
    /\ ClientsIdle /\ LogIdle

HybridSearch ==
    /\ phase = "start"
    /\ search_result' = hybrid_search(search_call.query_text,
                                      search_call.query_embedding,
                                      search_call.k, search_call.alpha,
                                      search_call.env)
    /\ phase' = "searched"
    /\ UNCHANGED <<search_call, chunkVars, classifyVars, embedVars, storeVars,
                   queryVars, answerVars, clientVars, logVars>>

NextHybrid == HybridSearch

SpecHybrid == InitHybrid /\ [][NextHybrid]_vars

---------------------------------------------------------------------------
(* Concurrent clients: each calls create_index once on the same engine.   *)
(* A call is two requests, the existence check (line 56) and the create   *)
(* request (lines 110-113); the engine serves one request at a time and    *)
(* the requests of the clients interleave in any order.                    *)

NumClients == 2

Clients == 1..NumClients

\* a client that has not called yet
NotCalled == [pc |-> "start", requests |-> <<>>, error |-> "",
              out |-> Returned(FALSE)]

\* the client returns out after the engine answered its request with error,
\* "" for no error
Done(client, request, error, out) ==
    [pc |-> "done", requests |-> Append(client.requests, request),
     error |-> error, out |-> out]

\* the engine served request of client c and answered it
Serve(c, request, answer) ==
    served' = Append(served, [client |-> c, request |-> request, answer |-> answer])

InitClients ==
    /\ phase = "clients"
    /\ index = NoIndex
    /\ last = NoCall /\ prev = Summary(NoCall)
    /\ clients = [c \in Clients |-> NotCalled]
    /\ served = <<>>
    /\ ChunkIdle /\ ClassifyIdle /\ EmbedIdle /\ QueryIdle /\ AnswerIdle
    /\ SearchIdle /\ LogIdle

\* lines 56-58: the existence check of client c; the engine answers it from
\* the index as it is now, or the request raises
ExistsCheck(c) ==
    /\ clients[c].pc = "start"
    /\ \E answer \in { "answers", "raises" } :
          /\ clients' = [clients EXCEPT ![c] =
                IF answer = "raises"
                THEN Done(@, "exists", "Exception", CreateIndexHandler("Exception"))
                ELSE IF index.exists
                THEN Done(@, "exists", "", Returned(TRUE))
                ELSE [@ EXCEPT !.pc = "checked",
                               !.requests = Append(@, "exists")]]
          /\ Serve(c, "exists", IF answer = "raises" THEN "Exception"
                                ELSE IF index.exists THEN "true" ELSE "false")
    /\ UNCHANGED <<phase, index, last, prev, chunkVars, classifyVars,
                   embedVars, queryVars, answerVars, searchVars, logVars>>

\* lines 110-127: the create request of client c; the engine refuses it
\* with resource_already_exists_exception when the index exists by now,
\* else it creates the index, refuses the request for another reason, the
\* request fails in transport, or the index is created and the reply is
\* lost in transport
CreateRequest(c) ==
    /\ clients[c].pc = "checked"
    /\ \E answer \in { "ok", "request_error", "raises", "reply_lost" } :
          \/ /\ index.exists
             /\ clients' = [clients EXCEPT ![c] =
                    Done(@, "create", AlreadyExists, CreateIndexHandler(AlreadyExists))]
             /\ Serve(c, "create", AlreadyExists)
             /\ UNCHANGED index
          \/ /\ ~index.exists
             /\ answer = "ok"
             /\ index' = EngineCreate(index, EMBEDDING_DIMENSION)
             /\ Serve(c, "create", "created")
             /\ clients' = [clients EXCEPT ![c] =
                    Done(@, "create", "", Returned(TRUE))]
          \/ /\ ~index.exists
             /\ answer = "reply_lost"
             /\ index' = EngineCreate(index, EMBEDDING_DIMENSION)
             /\ Serve(c, "create", "created")
             /\ clients' = [clients EXCEPT ![c] =
                    Done(@, "create", "Exception", CreateIndexHandler("Exception"))]
          \/ /\ ~index.exists
             /\ answer \in { "request_error", "raises" }
             /\ clients' = [clients EXCEPT ![c] =
                    IF answer = "request_error"
                    THEN Done(@, "create", "RequestError",
                              CreateIndexHandler("RequestError"))
                    ELSE Done(@, "create", "Exception",
                              CreateIndexHandler("Exception"))]
             /\ Serve(c, "create", IF answer = "request_error"
                                   THEN "RequestError" ELSE "Exception")
             /\ UNCHANGED index
    /\ UNCHANGED <<phase, last, prev, chunkVars, classifyVars, embedVars,
                   queryVars, answerVars, searchVars, logVars>>

NextClients ==
    \/ \E c \in Clients : ExistsCheck(c)
    \/ \E c \in Clients : CreateRequest(c)

SpecClients == InitClients /\ [][NextClients]_vars

---------------------------------------------------------------------------
(* Concurrent log_qa_session calls of two chat sessions on the same log    *)
(* directory. The steps of a call are its accesses to the files: the       *)
(* append to qa_sessions.jsonl, the read of qa_sessions.csv, the rewrite   *)
(* of qa_sessions.csv and the append to the daily log. An append and a     *)
(* rewrite are taken as one step each. Both calls fall on the same day.    *)

NumSessions == 2

Sessions == 1 .. NumSessions

UserQuestions == { "q1", "q2" }

\* lines 73-88: the record of a call, of which the model keeps the fields
\* that tell two records apart
log_data(session_id, user_question) ==
    [log_id |-> <<"log", session_id>>, session_id |-> session_id,
     user_question |-> user_question]

\* lines 115-125: the csv row of a record, without its log_id
new_row(data) ==
    [session_id |-> data.session_id, user_question |-> data.user_question]

\* a session that has not logged yet
NotLogged(session_id, user_question) ==
    [pc |-> "start", data |-> log_data(session_id, user_question),
     df |-> <<>>, caught |-> <<>>, out |-> Returned(<<>>)]

InitLog ==
    /\ phase = "log"
    /\ \E questions \in [Sessions -> UserQuestions] :
          sessions = [s \in Sessions |-> NotLogged(s, questions[s])]
    /\ log_files = NewLogFiles
    /\ ChunkIdle /\ ClassifyIdle /\ EmbedIdle /\ StoreIdle /\ QueryIdle
    /\ AnswerIdle /\ SearchIdle /\ ClientsIdle

\* lines 92-93, 104-106: the record is appended to qa_sessions.jsonl, or
\* the open or the write raises and log_qa_session raises it again
AppendJsonl(s) ==
    /\ sessions[s].pc = "start"
    /\ \E outcome \in { "ok", "raises" } :
          IF outcome = "ok"
          THEN /\ log_files' = [log_files EXCEPT
                     !.jsonl = Append(@, sessions[s].data)]
               /\ sessions' = [sessions EXCEPT ![s].pc = "jsonl_written"]
          ELSE /\ sessions' = [sessions EXCEPT ![s].pc = "done",
                     ![s].out = Raised("Exception")]
               /\ UNCHANGED log_files
    /\ UNCHANGED <<phase, chunkVars, classifyVars, embedVars, storeVars,
                   queryVars, answerVars, searchVars, clientVars>>

\* lines 112, 133-134: _append_to_csv reads the rows of qa_sessions.csv as
\* they are now, or the read raises and the row is given up with a warning
ReadCsv(s) ==
    /\ sessions[s].pc = "jsonl_written"
    /\ \E outcome \in { "ok", "raises" } :
          sessions' = [sessions EXCEPT ![s] =
              IF outcome = "ok"
              THEN [@ EXCEPT !.pc = "csv_read", !.df = log_files.csv]
              ELSE [@ EXCEPT !.pc = "csv_done",
                             !.caught = Append(@, "Exception")]]
    /\ UNCHANGED <<phase, log_files, chunkVars, classifyVars, embedVars,
                   storeVars, queryVars, answerVars, searchVars, clientVars>>

\* lines 128-134: the rows read, with the new row after them, replace the
\* content of qa_sessions.csv, or the write raises and the row is given up
WriteCsv(s) ==
    /\ sessions[s].pc = "csv_read"
    /\ \E outcome \in { "ok", "raises" } :
          IF outcome = "ok"
          THEN /\ log_files' = [log_files EXCEPT
                     !.csv = Append(sessions[s].df, new_row(sessions[s].data))]
               /\ sessions' = [sessions EXCEPT ![s].pc = "csv_done"]
          ELSE /\ sessions' = [sessions EXCEPT ![s].pc = "csv_done",
                     ![s].caught = Append(@, "Exception")]
               /\ UNCHANGED log_files
    /\ UNCHANGED <<phase, chunkVars, classifyVars, embedVars, storeVars,
                   queryVars, answerVars, searchVars, clientVars>>

\* lines 99-102, 136-145: the record is appended to the daily log, or that
\* fails with a warning; log_qa_session returns the log_id
SaveDailyLog(s) ==
    /\ sessions[s].pc = "csv_done"
    /\ \E outcome \in { "ok", "raises" } :
          IF outcome = "ok"
          THEN /\ log_files' = [log_files EXCEPT
                     !.daily = Append(@, sessions[s].data)]
               /\ sessions' = [sessions EXCEPT ![s].pc = "done",
                     ![s].out = Returned(sessions[s].data.log_id)]
          ELSE /\ sessions' = [sessions EXCEPT ![s].pc = "done",
                     ![s].caught = Append(@, "Exception"),
                     ![s].out = Returned(sessions[s].data.log_id)]
               /\ UNCHANGED log_files
    /\ UNCHANGED <<phase, chunkVars, classifyVars, embedVars, storeVars,
                   queryVars, answerVars, searchVars, clientVars>>

NextLog ==
    \/ \E s \in Sessions : AppendJsonl(s)
    \/ \E s \in Sessions : ReadCsv(s)
    \/ \E s \in Sessions : WriteCsv(s)
    \/ \E s \in Sessions : SaveDailyLog(s)

SpecLog == InitLog /\ [][NextLog]_vars

---------------------------------------------------------------------------
(* Claims about chunking                                                   *)

\* tokens of a sentence as it stands in the document, with the terminator
\* that re.split cut off
SentenceTokens(sentence) ==
    sentence.tok + (IF sentence.cut THEN DotTokens ELSE 0)

\* C1: every chunk create_chunks emits has at most MAX_TOKENS_PER_CHUNK
\* tokens, except a chunk that consists of one single sentence which alone
\* has more than MAX_TOKENS_PER_CHUNK tokens.
C1_ChunkWithinMaxTokens ==
    phase = "chunked" =>
        \A i \in DOMAIN chunks :
            \/ ChunkTokens(chunks[i]) <= MAX_TOKENS_PER_CHUNK
            \/ /\ Len(chunks[i].content.sentences) = 1
               /\ SentenceTokens(chunks[i].content.sentences[1]) > MAX_TOKENS_PER_CHUNK

\* C2: the i-th chunk emitted (0-based) has the id chunk_i, over pages,
\* sections and sub-chunks alike, so the ids of one run are pairwise
\* distinct and increase in emission order.
C2_ChunkIdsSequential ==
    phase = "chunked" =>
        /\ \A i \in DOMAIN chunks : chunks[i].chunk_id = ChunkIdStr(i - 1)
        /\ \A i, j \in DOMAIN chunks : i # j => chunks[i].chunk_id # chunks[j].chunk_id

\* a run over two pages that emitted a whole section and then the
\* sub-chunks of an oversized section
C2_Witness ==
    /\ phase = "chunked"
    /\ Len(chunks) >= 3
    /\ chunks[1].content.whole
    /\ ~chunks[2].content.whole /\ ~chunks[3].content.whole
    /\ chunks[1].page_number = 1 /\ chunks[2].page_number = 2
    /\ chunks[3].chunk_id = "chunk_2"

---------------------------------------------------------------------------
(* Claims about section typing                                             *)

\* the categories that have keywords, highest priority first
CategoryPriority == <<"warning", "instruction", "specification", "troubleshooting">>

KeywordsOf(category) ==
    CASE category = "warning"         -> WarningKeywords
      [] category = "instruction"     -> InstructionKeywords
      [] category = "specification"   -> SpecificationKeywords
      [] category = "troubleshooting" -> TroubleshootingKeywords

\* some keyword of the category occurs in the text
Occurs(category, txt) ==
    \E k \in DOMAIN KeywordsOf(category), i \in DOMAIN txt :
        txt[i] = KeywordsOf(category)[k]

\* C4: identify_section_type returns a value for every text, one of the
\* five categories: the first category in the order warning, instruction,
\* specification, troubleshooting one of whose keywords occurs in the text,
\* and general when no keyword occurs.
C4_SectionTypeByPriority ==
    phase = "classified" =>
        /\ section_type \in Range(CategoryPriority) \cup {"general"}
        /\ \A p \in DOMAIN CategoryPriority :
              section_type = CategoryPriority[p]
              <=> /\ Occurs(CategoryPriority[p], text)
                  /\ \A q \in 1..(p - 1) : ~Occurs(CategoryPriority[q], text)
        /\ section_type = "general"
              <=> \A p \in DOMAIN CategoryPriority : ~Occurs(CategoryPriority[p], text)

\* a text with an instruction keyword before a warning keyword, typed warning
C4_Witness ==
    /\ phase = "classified"
    /\ text = <<"sayongbeop", "juui">>
    /\ section_type = "warning"

---------------------------------------------------------------------------
(* Claims about embedding                                                  *)

\* C5: for every list of texts, every batch size of at least 1 and every
\* pattern of failing create_embedding calls, create_embeddings_batch
\* returns, without raising, a list with one entry per input text.
C5_BatchLengthEqualsInput ==
    phase = "embedded" =>
        /\ ~embeddings.raised
        /\ Len(embeddings.value) = Len(texts)

\* a call over more than one batch in which a create_embedding call failed
C5_Witness ==
    /\ phase = "embedded"
    /\ Len(texts) = 3 /\ batch_size = 2
    /\ call_outcomes[2] = "raises" /\ call_outcomes[3] = "empty"
    /\ Len(embeddings.value) = 3

\* the create_embedding call for texts[i] succeeded
Succeeded(i) == call_outcomes[i] = "ok"

\* C17: for every position i of the input, the output of
\* create_embeddings_batch holds at i the embedding the model returned for
\* texts[i] when that call succeeded and the zero vector of dimension 1024
\* when it failed, whatever happened at the other positions.
C17_BatchKeepsOrderUnderFailures ==
    phase = "embedded" =>
        /\ ~embeddings.raised
        /\ DOMAIN embeddings.value = DOMAIN texts
        /\ \A i \in DOMAIN texts :
              /\ Succeeded(i) => embeddings.value[i] = ModelVector(texts[i])
              /\ ~Succeeded(i) =>
                    /\ embeddings.value[i] = ZeroVector
                    /\ embeddings.value[i].dim = 1024

\* two batches over different texts, the first call failed and the calls
\* on both sides of the batch boundary succeeded
C17_Witness ==
    /\ phase = "embedded"
    /\ Len(texts) = 3 /\ batch_size = 2
    /\ texts[2] # texts[3]
    /\ call_outcomes = << "raises", "ok", "ok" >>
    /\ embeddings.value = << ZeroVector, ModelVector(texts[2]), ModelVector(texts[3]) >>

---------------------------------------------------------------------------
(* Claims about indexing                                                   *)

\* two consecutive process_and_index_document calls on the same file
SameDocumentTwice ==
    /\ last.op = "process_and_index_document"
    /\ prev.op = "process_and_index_document"
    /\ last.arg = prev.arg

\* C3: processing and indexing the same unchanged document twice yields the
\* same chunk ids, the second run stores nothing under a key that is not one
\* of them, and when the first run stored every chunk the index holds after
\* the second run exactly the keys it held after the first.
C3_ReindexSameKeys ==
    SameDocumentTwice =>
        /\ last.chunk_ids = prev.chunk_ids
        /\ last.stored \subseteq Range(last.chunk_ids)
        /\ prev.stored_all =>
              /\ ~last.keys_changed
              /\ Range(prev.chunk_ids) \subseteq Keys(index)

\* the two-chunk manual indexed twice, every chunk stored both times
C3_Witness ==
    /\ SameDocumentTwice
    /\ last.arg = "a.pdf"
    /\ Len(last.chunk_ids) = 2
    /\ prev.stored_all
    /\ last.stored = Range(last.chunk_ids)
    /\ last.out = Returned(TRUE)
    /\ Keys(index) = Range(last.chunk_ids)

\* two consecutive create_index calls
CreateIndexTwice == last.op = "create_index" /\ prev.op = "create_index"

\* C6: calling create_index twice in a row never raises; when the first
\* call reported success, the second sends no index-creation request and
\* leaves the index, its mapping and its documents as they were, and it
\* returns success when the engine answers its existence check.
C6_CreateIndexIdempotent ==
    CreateIndexTwice =>
        /\ ~prev.out.raised
        /\ ~last.out.raised
        /\ prev.out = Returned(TRUE) =>
              /\ "create" \notin Range(last.requests)
              /\ ~last.changed
              /\ last.arg = "answers" => last.out = Returned(TRUE)

\* create_index called twice on an index that holds documents
C6_Witness ==
    /\ CreateIndexTwice
    /\ prev.out = Returned(TRUE)
    /\ last.out = Returned(TRUE)
    /\ last.requests = <<"exists">>
    /\ index.exists
    /\ Keys(index) # {}

\* C7: add_documents called with len(chunks) # len(embeddings) reports
\* failure before any network call: it sends no bulk and no refresh
\* request and leaves the index unchanged.
C7_MismatchSendsNothing ==
    (last.op = "add_documents" /\ last.n_chunks # last.n_embeddings) =>
        /\ last.out = Returned(FALSE)
        /\ last.requests = <<>>
        /\ ~last.changed

\* two chunks with one embedding, given to a store that holds documents
C7_Witness ==
    /\ last.op = "add_documents"
    /\ last.n_chunks = 2
    /\ last.n_embeddings = 1
    /\ last.out = Returned(FALSE)
    /\ Keys(index) # {}


---------------------------------------------------------------------------
(* Claims about question answering                                         *)

Response == query_result.out.value

Answered == phase = "answered"

\* the methods that caught an exception during the query, in order
CaughtBy == [i \in DOMAIN query_result.caught |-> query_result.caught[i].where]

\* what was caught last
LastCaught == query_result.caught[Len(query_result.caught)]

\* C8: whenever the retrieval step of query returns no results, the
\* response carries the fixed "nothing found" answer, an empty sources list
\* and a results_count field equal to 0.
C8_NoResultsResponse ==
    (Answered /\ query_result.found = <<>>) =>
        /\ Response.answer = NothingFound
        /\ Response.sources = <<>>
        /\ "results_count" \in DOMAIN Response
        /\ Response.results_count = 0

\* C9: query never lets an exception through to its caller: whatever the
\* question, k and search type, and whatever the embedding model, the
\* search engine and the chat model do, it returns a response object with
\* a question, an answer, a sources list and a search time.
C9_QueryNeverRaises ==
    Answered =>
        /\ ~query_result.out.raised
        /\ { "question", "answer", "sources", "search_time" } \subseteq DOMAIN Response

\* the chat model failed and then query's own body raised
C9_Witness ==
    /\ Answered
    /\ query_call.env.chat = "raises"
    /\ CaughtBy = << "RAGSystem.generate_answer", "RAGSystem.query" >>
    /\ ~query_result.out.raised
    /\ "error" \in DOMAIN Response

\* the response C10 describes: an answer holding the error detail, no
\* sources, search time 0 and an error field
IsErrorResponse(response) ==
    /\ response.answer.detail # ""
    /\ response.sources = <<>>
    /\ response.search_time = 0
    /\ "error" \in DOMAIN response

\* C10 as stated: an exception at any stage of a query (embedding the
\* question, searching the index, invoking the chat model) yields the
\* response with the error detail in the answer, no sources, search time 0
\* and an error field.
C10_AnyFailureGivesErrorResponse ==
    (Answered /\ query_result.caught # <<>>) => IsErrorResponse(Response)

\* C10, amended: an exception raised while embedding the question or
\* searching the index is caught inside the retrieval step and query
\* returns the "nothing found" response (fixed answer, no sources, measured
\* search time, no error field); an exception raised while invoking the
\* chat model is caught inside generate_answer and query returns a regular
\* response whose answer holds the error detail, with the sources kept and
\* no error field; only an exception raised in query's own body yields the
\* response with the error detail in the answer, no sources, search time 0
\* and an error field.
C10_FailureResponses ==
    (Answered /\ query_result.caught # <<>>) =>
        CASE LastCaught.where = "RAGSystem.query" ->
                /\ IsErrorResponse(Response)
                /\ Response.answer = QueryError(LastCaught.error)
                /\ Response.error = LastCaught.error
          [] LastCaught.where = "RAGSystem.generate_answer" ->
                /\ Response.answer = GenerationError(LastCaught.error)
                /\ Len(Response.sources) = Len(query_result.found)
                /\ Response.sources # <<>>
                /\ Response.search_time = query_call.env.elapsed
                /\ "error" \notin DOMAIN Response
          [] OTHER ->
                /\ LastCaught.where \in { "RAGSystem.search",
                                          "OpenSearchVectorStore.search",
                                          "OpenSearchVectorStore.hybrid_search" }
                /\ query_result.found = <<>>
                /\ Response.answer = NothingFound
                /\ Response.sources = <<>>
                /\ Response.search_time = query_call.env.elapsed
                /\ "error" \notin DOMAIN Response

\* the chat model raised after a search that found two results
C10_Witness ==
    /\ Answered
    /\ Len(query_result.found) = 2
    /\ CaughtBy = << "RAGSystem.generate_answer" >>
    /\ Response.answer = GenerationError("ClientError")
    /\ Len(Response.sources) = 2
    /\ query_call.env.elapsed = 1


---------------------------------------------------------------------------
(* Claims about answer generation                                          *)

\* cumulative annotated length of the first n results
CumulativeLen(results, n) == SumSeq([i \in 1..n |-> PartLen(results[i])])

\* length of the longest prefix of results that fits into max_context_length
LongestFittingPrefix(results, max_context_length) ==
    CHOOSE n \in 0..Len(results) :
        /\ CumulativeLen(results, n) <= max_context_length
        /\ \A m \in 0..Len(results) :
              CumulativeLen(results, m) <= max_context_length => m <= n

\* C11: the context generate_answer builds consists of exactly the longest
\* prefix of the ranked results whose cumulative annotated length does not
\* exceed max_context_length, each result of the prefix included whole and
\* in ranking order, and nothing of the results after it.
C11_ContextIsLongestFittingPrefix ==
    phase = "generated" =>
        LET results == answer_call.search_results
            n == LongestFittingPrefix(results, answer_call.max_context_length)
        IN /\ Len(answer_result.context) = n
           /\ \A i \in 1..n :
                 /\ answer_result.context[i].content = results[i].content
                 /\ answer_result.context[i].page_number = results[i].page_number
                 /\ answer_result.context[i].len = PartLen(results[i])

\* five results of which the fourth does not fit after the first three,
\* while the fifth would
C11_Witness ==
    /\ phase = "generated"
    /\ Len(answer_call.search_results) = 5
    /\ answer_call.max_context_length = MAX_CONTEXT_LENGTH
    /\ Len(answer_result.context) = 3
    /\ CumulativeLen(answer_call.search_results, 3)
         + PartLen(answer_call.search_results[5]) <= MAX_CONTEXT_LENGTH


---------------------------------------------------------------------------
(* Claims about the stages of a query                                      *)

\* the requests a query sent to the retrieval store
StoreRequests ==
    { i \in DOMAIN query_result.calls : query_result.calls[i].to = "search" }

Unsupported == query_call.search_type \notin { "vector", "hybrid" }

---------------------------------------------------------------------------
(* Claims about bulk indexing                                              *)

\* the bulk requests the last call sent
BulkRequests == { i \in DOMAIN last.requests : last.requests[i] = "bulk" }

\* every bulk request of the last call was answered: the call went on to
\* the refresh
AllBulkAnswered == "refresh" \in Range(last.requests)

\* C13 as stated: a failure in one batch of add_documents does not abort
\* the batches after it (every batch is sent), and the call reports success
\* exactly when at least one document of any batch was indexed.
C13_BatchFailureDoesNotAbort ==
    (last.op = "add_documents" /\ last.n_chunks = last.n_embeddings) =>
        /\ Cardinality(BulkRequests) = NumBatches(last.n_chunks)
        /\ last.out = Returned(TRUE) <=> last.stored # {}

\* C13, amended: a bulk response that reports rejected items does not
\* abort the batches after it: when every bulk request is answered, every
\* batch is sent, and once the index is refreshed the call reports success
\* exactly when at least one document of any batch was indexed.  A bulk
\* request that raises ends the call without the later batches and without
\* the refresh, and the call reports failure, as it does when the refresh
\* raises, also when documents were indexed before.
C13_ItemFailuresDoNotAbort ==
    (last.op = "add_documents" /\ last.n_chunks = last.n_embeddings) =>
        /\ AllBulkAnswered =>
              Cardinality(BulkRequests) = NumBatches(last.n_chunks)
        /\ (AllBulkAnswered /\ index.refreshed) =>
              (last.out = Returned(TRUE) <=> last.stored # {})
        /\ ~AllBulkAnswered => last.out = Returned(FALSE)
        /\ last.out = Returned(TRUE) =>
              (AllBulkAnswered /\ index.refreshed /\ last.stored # {})

\* the first item of the first batch rejected, the second batch stored
C13_Witness ==
    /\ last.op = "add_documents"
    /\ last.n_chunks = BULK_BATCH_SIZE + 1
    /\ last.requests = << "bulk", "bulk", "refresh" >>
    /\ "chunk_0" \notin last.stored
    /\ Cardinality(last.stored) = BULK_BATCH_SIZE
    /\ ChunkIdStr(BULK_BATCH_SIZE) \in last.stored
    /\ last.out = Returned(TRUE)

---------------------------------------------------------------------------
(* Claims about deleting the index                                         *)

Deleted == last.op = "delete_index"

\* the last call was a delete_index on a missing index
DeleteOnMissing == Deleted /\ ~last.changed /\ ~index.exists

\* C14: delete_index never raises; called when the index does not exist it
\* sends no delete request and returns success when the engine answers its
\* existence check; a call that reports success leaves no index, and a
\* second call after it leaves that state as it is.
C14_DeleteIndexIdempotent ==
    /\ Deleted => ~last.out.raised
    /\ DeleteOnMissing =>
          /\ "delete" \notin Range(last.requests)
          /\ last.arg = "answers" => last.out = Returned(TRUE)
    /\ (Deleted /\ last.out = Returned(TRUE)) => index = NoIndex
    /\ (Deleted /\ prev.op = "delete_index" /\ prev.out = Returned(TRUE)) =>
          /\ index = NoIndex
          /\ ~last.changed
          /\ "delete" \notin Range(last.requests)
          /\ last.arg = "answers" => last.out = Returned(TRUE)

\* delete_index called twice in a row, both calls reporting success
C14_Witness ==
    /\ Deleted
    /\ prev.op = "delete_index"
    /\ prev.out = Returned(TRUE)
    /\ last.out = Returned(TRUE)
    /\ last.requests = << "exists" >>
    /\ index = NoIndex

---------------------------------------------------------------------------
(* Claims about the hybrid search                                          *)

Searched == phase = "searched"

\* the bodies of the search requests the hybrid search sent
SentBodies ==
    { search_result.calls[i].body : i \in
        { j \in DOMAIN search_result.calls : search_result.calls[j].to = "search" } }

\* the vector neighbour clause on the embedding field, boosted by alpha
IsVectorClause(clause) ==
    /\ DOMAIN clause = { "knn" }
    /\ DOMAIN clause.knn = { "embedding" }
    /\ clause.knn.embedding.vector = search_call.query_embedding
    /\ clause.knn.embedding.k = search_call.k
    /\ clause.knn.embedding.boost = search_call.alpha

\* the keyword clause over content, double-weighted, and
\* image_descriptions, boosted by 1 - alpha
IsKeywordClause(clause) ==
    /\ DOMAIN clause = { "multi_match" }
    /\ clause.multi_match.query = search_call.query_text
    /\ clause.multi_match.fields = << "content^2", "image_descriptions" >>
    /\ clause.multi_match.boost + search_call.alpha = One

\* C15: every query hybrid_search sends to the engine is one
\* should-combination of two clauses, the vector neighbour clause on the
\* embedding field boosted by alpha and the keyword multi-match clause over
\* content^2 and image_descriptions boosted by 1 - alpha; its size is k and
\* the embedding field is excluded from the returned projection.
C15_HybridQueryHasBothClauses ==
    Searched =>
        /\ SentBodies # {}
        /\ \A body \in SentBodies :
              /\ DOMAIN body.query = { "bool" }
              /\ DOMAIN body.query.bool = { "should" }
              /\ Len(body.query.bool.should) = 2
              /\ IsVectorClause(body.query.bool.should[1])
              /\ IsKeywordClause(body.query.bool.should[2])
              /\ body.size = search_call.k
              /\ "embedding" \in Range(body.source.excludes)

\* a hybrid search with an alpha other than the default and a k below the
\* number of hits the engine holds, answered by the engine
C15_Witness ==
    /\ Searched
    /\ search_call.alpha = One - DEFAULT_ALPHA
    /\ search_call.k = 1
    /\ Len(search_call.env.hits) = 2
    /\ search_call.env.engine = "answers"
    /\ Len(search_result.calls) = 1
    /\ ~search_result.out.raised
    /\ Len(search_result.out.value) = 1

---------------------------------------------------------------------------
(* Claims about documents that give nothing to index                       *)

Processed == last.op = "process_and_index_document"

\* the document of the last call could not be extracted, or gave no chunk
NothingToIndex ==
    \/ ProcessedDocuments[last.arg].raised
    \/ ProcessedDocuments[last.arg].value = <<>>

\* C16: process_and_index_document never raises; when the extraction of
\* the document fails or gives zero chunks it returns False, makes no
\* embedding call and sends nothing to the index, which stays as it was.
C16_NothingToIndexReturnsFalse ==
    Processed =>
        /\ ~last.out.raised
        /\ NothingToIndex =>
              /\ last.out = Returned(FALSE)
              /\ last.n_embeddings = 0
              /\ last.requests = <<>>
              /\ ~last.changed
              /\ ~last.keys_changed

\* a document that cannot be extracted, processed after another document
\* was indexed in full
C16_Witness ==
    /\ Processed
    /\ last.arg = "corrupt.pdf"
    /\ last.out = Returned(FALSE)
    /\ prev.op = "process_and_index_document"
    /\ prev.out = Returned(TRUE)
    /\ prev.stored_all
    /\ Keys(index) # {}

---------------------------------------------------------------------------
(* Claims about concurrent create_index calls                              *)

\* how many times the engine created the index
Creations == Cardinality({ i \in DOMAIN served : served[i].answer = "created" })

AllReturned == \A c \in Clients : clients[c].pc = "done"

\* the clients whose create request was refused because the index existed
Losers == { c \in Clients : clients[c].error = AlreadyExists }

\* no request failed for a reason other than the index existing already
OnlyRaceErrors == \A c \in Clients : clients[c].error \in { "", AlreadyExists }

\* C18: when the clients call create_index concurrently on a missing
\* index, the engine creates the index at most once in every interleaving
\* of their requests; a client whose create request is refused with
\* resource_already_exists_exception returns success; and when no request
\* fails for another reason, every call returns success and exactly one
\* index was created.
C18_ConcurrentCreateIndex ==
    /\ Creations <= 1
    /\ \A c \in Losers : clients[c].out = Returned(TRUE)
    /\ (AllReturned /\ OnlyRaceErrors) =>
          /\ \A c \in Clients : clients[c].out = Returned(TRUE)
          /\ Creations = 1
          /\ index.exists

\* both clients saw a missing index, one created it and the other's create
\* request was refused
C18_Witness ==
    /\ AllReturned
    /\ clients[1].requests = << "exists", "create" >>
    /\ clients[2].requests = << "exists", "create" >>
    /\ clients[1].error = ""
    /\ clients[2].error = AlreadyExists
    /\ clients[1].out = Returned(TRUE)
    /\ clients[2].out = Returned(TRUE)
    /\ Creations = 1
    /\ Len(served) = 4
    /\ served[1].request = "exists" /\ served[2].request = "exists"

---------------------------------------------------------------------------
(* Claims about the remote calls of a query                                *)

\* how many calls of a query went to one of the remote services
CallsTo(service) ==
    Cardinality({ i \in DOMAIN query_result.calls :
                    query_result.calls[i].to = service })

\* C19: within one query the chat model is invoked exactly once when the
\* search returned at least one result and never when it returned none,
\* and neither the embedding model nor the retrieval store nor the chat
\* model is called more than once, whichever of the calls failed.
C19_RemoteCallsAtMostOnce ==
    Answered =>
        /\ query_result.found # <<>> => CallsTo("chat") = 1
        /\ query_result.found = <<>> => CallsTo("chat") = 0
        /\ CallsTo("embed") <= 1
        /\ CallsTo("search") <= 1
        /\ CallsTo("chat") <= 1
        /\ Len(query_result.calls)
             = CallsTo("embed") + CallsTo("search") + CallsTo("chat")

\* a query whose search found two results and whose chat model call failed
C19_Witness ==
    /\ Answered
    /\ Len(query_result.found) = 2
    /\ query_call.env.chat = "raises"
    /\ "RAGSystem.generate_answer" \in Range(CaughtBy)
    /\ CallsTo("embed") = 1
    /\ CallsTo("search") = 1
    /\ CallsTo("chat") = 1

---------------------------------------------------------------------------
(* Claims about the order of the stages of a query                         *)

\* the place of a remote service in the order of the stages
Stage(service) ==
    CASE service = "embed"  -> 1
      [] service = "search" -> 2
      [] service = "chat"   -> 3

\* the query vector a search request carries
VectorOf(body) ==
    IF "knn" \in DOMAIN body.query
    THEN body.query.knn.embedding.vector
    ELSE body.query.bool.should[1].knn.embedding.vector

EmbeddingObtained == query_call.env.embed = "ok"

\* C20: the remote calls of a query are made in the order embedding,
\* search, chat, each stage only after the stage before it; a search
\* request is sent only when the embedding call succeeded and carries the
\* embedding it returned; when the embedding call fails or yields an empty
\* vector the query answers "nothing found" with no sources and calls
\* neither the retrieval store nor the chat model.
C20_StagesInOrder ==
    Answered =>
        /\ \A i \in DOMAIN query_result.calls :
              Stage(query_result.calls[i].to) = i
        /\ \A i \in StoreRequests :
              /\ EmbeddingObtained
              /\ VectorOf(query_result.calls[i].body)
                   = ModelVector(query_call.question)
        /\ ~EmbeddingObtained =>
              /\ query_result.calls = << EmbedCall >>
              /\ ~query_result.out.raised
              /\ Response.answer = NothingFound
              /\ Response.sources = <<>>

\* a hybrid query whose embedding call yields an empty vector while the
\* engine holds hits
C20_Witness ==
    /\ Answered
    /\ query_call.env.embed = "empty"
    /\ query_call.search_type = "hybrid"
    /\ query_call.env.engine = "answers"
    /\ Len(query_call.env.hits) = 2
    /\ query_result.calls = << EmbedCall >>
    /\ Response.answer = NothingFound
    /\ "RAGSystem.search" \in Range(CaughtBy)


---------------------------------------------------------------------------
(* Claims about the split into sections                                    *)

\* the lines of a text that are not blank, in order
NonBlank(lines) == SelectSeq(lines, LAMBDA line : line # BlankLine)

Headings(lines) == { i \in DOMAIN lines : lines[i].head }

\* the lines of a text before its first heading
LeadingLines(lines) ==
    IF Headings(lines) = {} THEN lines
    ELSE SubSeq(lines, 1, (CHOOSE i \in Headings(lines) :
                             \A j \in Headings(lines) : i <= j) - 1)

\* what C21 states of the sections of one text
SectionsAsClaimed(lines, sections) ==
    /\ \A s \in DOMAIN sections :
          /\ sections[s] # <<>>
          /\ ~IsBlankText(sections[s])
          /\ \A i \in 2..Len(sections[s]) : ~sections[s][i].head
    /\ Cardinality({ s \in DOMAIN sections : sections[s][1].head })
         = Cardinality(Headings(lines))
    /\ NonBlank(FlattenSeq(sections)) = NonBlank(lines)
    /\ ~IsBlankText(LeadingLines(lines)) => sections[1] = LeadingLines(lines)
    /\ Len(sections) = Cardinality(Headings(lines))
                       + (IF IsBlankText(LeadingLines(lines)) THEN 0 ELSE 1)

\* C21: for every text, _split_by_sections returns its sections in input
\* order; every heading line is the first line of a section of its own, no
\* section holds a heading after its first line, the lines before the
\* first heading form one leading section, and no section returned is
\* empty or blank.
C21_SectionsSplitAtHeadings ==
    phase = "chunked" =>
        \A p \in DOMAIN content :
            SectionsAsClaimed(text_content(content[p]),
                              split_by_sections(text_content(content[p])))

\* a page of a body line followed by two headings with nothing between
\* them, split into three sections
C21_Witness ==
    /\ phase = "chunked"
    /\ Len(content) = 1
    /\ Len(content[1].str) = 3
    /\ ~content[1].str[1].head /\ content[1].str[1] # BlankLine
    /\ content[1].str[2].head /\ content[1].str[3].head
    /\ Len(split_by_sections(text_content(content[1]))) = 3
    /\ Len(chunks) >= 3


---------------------------------------------------------------------------
(* Claims about sections and the chunks made of them                       *)

\* the sections of a document, page by page, blank pages left out as
\* create_chunks leaves them out
SectionsOf(pages) ==
    FlattenSeq([p \in DOMAIN pages |->
                   IF IsBlankText(text_content(pages[p])) THEN <<>>
                   ELSE split_by_sections(text_content(pages[p]))])

Oversized(section) == TokenCount(section) > MAX_TOKENS_PER_CHUNK

\* the sentences of a list of chunks, in order
SentencesOf(chunks_) ==
    FlattenSeq([i \in DOMAIN chunks_ |-> chunks_[i].content.sentences])

\* C22: no section is dropped: the chunks of a run hold the sentences of
\* all sections, each sentence once and in the original order, there are
\* at least as many chunks as sections, and the sub-chunks of an oversized
\* section are at least one, hold every sentence of the sentence split
\* exactly once and in order, and none of them is empty.
C22_SectionsSubdividedNotDropped ==
    phase = "chunked" =>
        LET sections == SectionsOf(content)
        IN /\ Len(chunks) >= Len(sections)
           /\ SentencesOf(chunks)
                = FlattenSeq([s \in DOMAIN sections |-> SplitSentences(sections[s], 0)])
           /\ \A i \in DOMAIN chunks : chunks[i].content.sentences # <<>>
           /\ \A s \in DOMAIN sections :
                 Oversized(sections[s]) =>
                    LET sub_chunks == split_long_section(sections[s], 1)
                    IN /\ sub_chunks # <<>>
                       /\ SentencesOf(sub_chunks) = SplitSentences(sections[s], 0)
                       /\ \A i \in DOMAIN sub_chunks :
                             sub_chunks[i].content.sentences # <<>>

\* one oversized section of three sentences, emitted as more than one
\* sub-chunk
C22_Witness ==
    /\ phase = "chunked"
    /\ Len(SectionsOf(content)) = 1
    /\ Oversized(SectionsOf(content)[1])
    /\ Len(SplitSentences(SectionsOf(content)[1], 0)) = 3
    /\ Len(chunks) >= 2
    /\ \A i \in DOMAIN chunks : ~chunks[i].content.whole


---------------------------------------------------------------------------
(* Claims about page coercion                                              *)

\* the coerced text of a page as C23 states it
CoercedText(page) ==
    CASE ~page.dict           -> page.str
      [] page.text.present    -> page.text.lines
      [] page.content.present -> page.content.lines
      [] OTHER                -> page.str

\* no chunk of the run comes from page p
Skipped(p) == \A i \in DOMAIN chunks : chunks[i].page_number # p

\* C23: create_chunks returns a chunk list for pages of every form (a
\* string, a dict whose 'text' and 'content' are strings or absent), and a
\* page yields no chunk exactly when its coerced text is empty or
\* whitespace only; the coerced text of a dict is its 'text', or else its
\* 'content', or else the string form of the dict, and that of any other
\* page its string form.
C23_PageSkippedIffCoercedBlank ==
    phase = "chunked" =>
        \A p \in DOMAIN content :
            Skipped(p) <=> IsBlankText(CoercedText(content[p]))

\* a dict read from its 'content', a dict that holds neither field and is
\* read from its string form, and a dict whose 'text' is whitespace and is
\* skipped although its 'content' holds text
C23_Witness ==
    /\ phase = "chunked"
    /\ Len(content) = 3
    /\ content[1].dict /\ ~content[1].text.present /\ content[1].content.present
    /\ ~Skipped(1)
    /\ content[2] = DictPage(Absent, Absent)
    /\ ~Skipped(2)
    /\ content[3].dict /\ content[3].text = Str(<< BlankLine >>)
    /\ content[3].content.present /\ ~IsBlankText(content[3].content.lines)
    /\ Skipped(3)


---------------------------------------------------------------------------
(* Claims about page numbers                                               *)

\* the chunks of the run that carry page number p, in order
ChunksOfPage(p) == SelectSeq(chunks, LAMBDA chunk : chunk.page_number = p)

\* the sentences of the sections of a page
SentencesOfPage(page) ==
    LET sections == split_by_sections(text_content(page))
    IN FlattenSeq([s \in DOMAIN sections |-> SplitSentences(sections[s], 0)])

\* C24: the page_number of every chunk is the 1-based position of the page
\* its text comes from, a skipped page keeping its number; page numbers do
\* not decrease along the chunks, and no chunk carries the number of a
\* skipped page.
C24_PageNumberIsPosition ==
    phase = "chunked" =>
        /\ \A i \in DOMAIN chunks :
              /\ chunks[i].page_number \in DOMAIN content
              /\ ~IsBlankText(text_content(content[chunks[i].page_number]))
        /\ \A p \in DOMAIN content :
              ~IsBlankText(text_content(content[p])) =>
                  SentencesOf(ChunksOfPage(p)) = SentencesOfPage(content[p])
        /\ \A i, j \in DOMAIN chunks :
              i < j => chunks[i].page_number <= chunks[j].page_number

\* three pages, the second of them skipped: the chunks carry the numbers 1
\* and 3
C24_Witness ==
    /\ phase = "chunked"
    /\ Len(content) = 3
    /\ IsBlankText(text_content(content[2]))
    /\ Len(chunks) = 2
    /\ chunks[1].page_number = 1
    /\ chunks[2].page_number = 3
    /\ chunks[2].chunk_id = "chunk_1"


---------------------------------------------------------------------------
(* Claims about the sources of a response                                  *)

\* the query returned a response built from search results (lines 247-254)
AnsweredFromResults ==
    /\ Answered
    /\ ~query_result.out.raised
    /\ "results_count" \in DOMAIN Response

\* a content cut to its first 200 characters, a shorter one left as it is
TruncatedTo200(c) == [c EXCEPT !.len = IF @ > 200 THEN 200 ELSE @]

\* the preview query makes of a content: a content of more than 200
\* characters becomes its first 200 characters followed by "..."
PreviewOf(c) == [c EXCEPT !.len = IF @ > 200 THEN 200 + 3 ELSE @]

\* C25 as stated: the sources of a successful response are one per search
\* result, in ranking order, each content truncated to 200 characters.
C25_SourcesTruncatedTo200 ==
    AnsweredFromResults =>
        /\ Len(Response.sources) = Len(query_result.found)
        /\ \A i \in DOMAIN Response.sources :
              Response.sources[i].content
                = TruncatedTo200(query_result.found[i].content)

\* C25, amended: the sources of a successful response are one per search
\* result, in ranking order, with the result's page number, score, section
\* type and image flag; a content of at most 200 characters is passed
\* through unchanged and a longer one becomes its first 200 characters
\* followed by "...", 203 characters in all.
C25_SourcesPreviewWithEllipsis ==
    AnsweredFromResults =>
        /\ Len(Response.sources) = Len(query_result.found)
        /\ \A i \in DOMAIN Response.sources :
              /\ Response.sources[i].content
                   = PreviewOf(query_result.found[i].content)
              /\ Response.sources[i].page_number
                   = query_result.found[i].page_number
              /\ Response.sources[i].score = query_result.found[i].score
              /\ Response.sources[i].section_type
                   = query_result.found[i].section_type
              /\ Response.sources[i].has_images
                   = query_result.found[i].has_images

\* a response over two results, a content of more than 200 characters
\* ranked before a shorter one
C25_Witness ==
    /\ AnsweredFromResults
    /\ Len(query_result.found) = 2
    /\ query_result.found[1].content.len > 200
    /\ query_result.found[2].content.len < 200
    /\ Response.sources[1].content.len = 203
    /\ Response.sources[2].content = query_result.found[2].content


---------------------------------------------------------------------------
(* Claims about the refresh after indexing                                 *)

\* the documents a search is sure to observe: those of a refreshed index
\* (no near-real-time visibility is assumed for writes not yet refreshed)
Searchable == IF index.refreshed THEN Keys(index) ELSE {}

RefreshRequests == { i \in DOMAIN last.requests : last.requests[i] = "refresh" }

\* C26: an add_documents call that returns True sent one refresh, after
\* all its bulk requests and as its last request, so the index is
\* refreshed when the call returns and a search then observes every
\* document the bulk requests accepted.
C26_SuccessImpliesRefreshed ==
    (last.op = "add_documents" /\ last.out = Returned(TRUE)) =>
        /\ RefreshRequests = { Len(last.requests) }
        /\ \A i \in BulkRequests : i < Len(last.requests)
        /\ BulkRequests # {}
        /\ index.refreshed
        /\ last.stored # {}
        /\ last.stored \subseteq Searchable

\* a successful call of two bulk requests, one of them with rejected items
C26_Witness ==
    /\ last.op = "add_documents"
    /\ last.out = Returned(TRUE)
    /\ last.requests = << "bulk", "bulk", "refresh" >>
    /\ Cardinality(last.stored) = BULK_BATCH_SIZE
    /\ last.stored \subseteq Searchable


---------------------------------------------------------------------------
(* Claims about the length of the context                                  *)

\* C27: the context that generate_answer puts in the prompt has, with the
\* separators between its parts, at most max_context_length characters.
C27_ContextWithinMaxLength ==
    phase = "generated" =>
        JoinedLen(answer_result.context) <= answer_call.max_context_length


---------------------------------------------------------------------------
(* Claims about the session log                                            *)

\* every session's call returned and none of its file accesses failed
AllLogged ==
    /\ phase = "log"
    /\ \A s \in Sessions :
          /\ sessions[s].pc = "done"
          /\ ~sessions[s].out.raised
          /\ sessions[s].caught = <<>>

\* C28: when two log_qa_session calls ran concurrently and no file access
\* failed, the records of both are in qa_sessions.jsonl and the rows of
\* both are in qa_sessions.csv, whatever the interleaving.
C28_BothRecordsInBothLogs ==
    AllLogged =>
        \A s \in Sessions :
            /\ sessions[s].data \in Range(log_files.jsonl)
            /\ new_row(sessions[s].data) \in Range(log_files.csv)


---------------------------------------------------------------------------
(* Claims about indexing two documents into one index                      *)

\* the files that give at least one chunk
IndexableFiles ==
    { f \in PdfFiles : /\ ~ProcessedDocuments[f].raised
                       /\ ProcessedDocuments[f].value # <<>> }

ChunksOf(f) == ProcessedDocuments[f].value

\* ix holds the chunks of file f, one document each, and nothing else
HoldsOnly(ix, f) ==
    /\ ix.exists
    /\ Cardinality(Keys(ix)) = Len(ChunksOf(f))
    /\ \A k \in Keys(ix) : ix.docs[k].metadata.source_file = f
    /\ \A i \in DOMAIN ChunksOf(f) :
          \E k \in Keys(ix) : ix.docs[k].content = ChunksOf(f)[i].content

\* the step is a process_and_index_document call on file f that reported
\* success and of which the engine stored every chunk
IndexedWhole(f) ==
    /\ last'.op = "process_and_index_document"
    /\ last'.arg = f
    /\ last'.out = Returned(TRUE)
    /\ Cardinality(last'.stored) = Len(ChunksOf(f))

LargerOf(m, n) == IF m >= n THEN m ELSE n

\* C29: when the index holds the chunks of document A and nothing else, and
\* a different document B is then indexed whole, every id chunk_i with
\* i < |B| holds B's chunk, the ids chunk_i with |B| <= i < |A| still hold
\* A's chunks, and the index holds max(|A|, |B|) documents.
C29_LastWriterWinsPerId ==
    [][ \A A \in IndexableFiles, B \in IndexableFiles :
          (A # B /\ HoldsOnly(index, A) /\ IndexedWhole(B)) =>
             /\ \A i \in 0 .. (Len(ChunksOf(B)) - 1) :
                   /\ ChunkIdStr(i) \in Keys(index')
                   /\ index'.docs[ChunkIdStr(i)].metadata.source_file = B
                   /\ index'.docs[ChunkIdStr(i)].content = ChunksOf(B)[i + 1].content
             /\ \A i \in Len(ChunksOf(B)) .. (Len(ChunksOf(A)) - 1) :
                   /\ ChunkIdStr(i) \in Keys(index')
                   /\ ChunkIdStr(i) \in Keys(index)
                   /\ index'.docs[ChunkIdStr(i)] = index.docs[ChunkIdStr(i)]
                   /\ index'.docs[ChunkIdStr(i)].metadata.source_file = A
             /\ Cardinality(Keys(index')) =
                   LargerOf(Len(ChunksOf(A)), Len(ChunksOf(B)))
      ]_vars

\* the two chunks of a.pdf were indexed, then the one chunk of b.pdf: the
\* index holds two documents, chunk_0 of b.pdf and chunk_1 of a.pdf
C29_Witness ==
    /\ prev.op = "process_and_index_document" /\ prev.arg = "a.pdf"
    /\ prev.stored_all /\ prev.out = Returned(TRUE)
    /\ last.op = "process_and_index_document" /\ last.arg = "b.pdf"
    /\ last.out = Returned(TRUE) /\ last.stored = { ChunkIdStr(0) }
    /\ Keys(index) = { ChunkIdStr(0), ChunkIdStr(1) }
    /\ index.docs[ChunkIdStr(0)].metadata.source_file = "b.pdf"
    /\ index.docs[ChunkIdStr(1)].metadata.source_file = "a.pdf"


---------------------------------------------------------------------------
(* Claims about the system reset                                           *)

Reset == last.op = "reset_system"

\* the requests of a reset beyond those of a delete_index call that failed:
\* a second existence check or a create request
AttemptedCreation ==
    \E i \in 2 .. Len(last.requests) : last.requests[i] \in { "exists", "create" }

\* C30: reset_system never raises; it calls create_index only after
\* delete_index returned True; when it returns True the index exists and
\* holds no document; when delete_index returned False it returns False and
\* the index is as it was.  A request that raises has changed nothing in
\* the engine.
C30_ResetDeletesThenCreates ==
    Reset =>
        /\ ~last.out.raised
        /\ AttemptedCreation => last.arg = "deleted"
        /\ last.out = Returned(TRUE) => (index.exists /\ Keys(index) = {})
        /\ last.arg = "delete_failed" =>
              (last.out = Returned(FALSE) /\ ~last.changed)

\* a document was indexed whole and the reset that followed returned True,
\* having deleted the index and created it again
C30_Witness ==
    /\ prev.op = "process_and_index_document" /\ prev.arg = "a.pdf"
    /\ prev.stored_all /\ prev.out = Returned(TRUE)
    /\ Reset /\ last.out = Returned(TRUE) /\ last.changed
    /\ last.requests = << "exists", "delete", "exists", "create" >>
    /\ index.exists /\ Keys(index) = {}

====
